---- MODULE Spec2Model ----
(***************************************************************************)
(* Model of the whitestones-capital database schema (two SQL migrations,   *)
(* src/unnamed/part_000 lines 1-779 and 781-1027): tables, column          *)
(* constraints and row-level-security (RLS) policies, as a state machine   *)
(* whose steps are single SQL statements issued by a caller.               *)
(*                                                                         *)
(* gen = 1 is the users-based schema (first migration), gen = 2 the        *)
(* profiles-based schema (second migration).  The variable users holds     *)
(* public.users in generation 1 and public.profiles in generation 2, and   *)
(* kyc holds kyc_verifications resp. kyc_documents.                        *)
(*                                                                         *)
(* SQL values: a text column holds a string or NULL; a numeric column      *)
(* holds NULLNUM (SQL NULL) or <<n>>.  Only the columns that constraints   *)
(* and policies read are kept in the rows.  A policy's sub-select on the   *)
(* users/profiles table is evaluated on the table's contents at the start  *)
(* of the statement.                                                       *)
(*                                                                         *)
(* The pages (src/src/pages/AdminDashboard.tsx and the Signup page,        *)
(* src/unnamed/part_000 lines 1029-1285) are modelled as handlers that run *)
(* from one await to the next; a backend call is a step that returns data, *)
(* returns an error or throws.                                             *)
(*                                                                         *)
(* sessions holds two browser sessions of the admin on the request lists:  *)
(* each reads a row and approves it in two separate statements.            *)
(***************************************************************************)
EXTENDS Integers, Sequences, FiniteSets, TLC

VARIABLES gen, users, kyc, waccounts, deposits, withdrawals, transactions,
          balances, last,
          activity_logs, admin_logs,
          dash, signup, toasts, location, calls, logged,
          sessions

vars == <<gen, users, kyc, waccounts, deposits, withdrawals, transactions,
          balances, last, activity_logs, admin_logs,
          dash, signup, toasts, location, calls, logged, sessions>>

\* the database: the tables and the outcome of the last statement
dbvars == <<gen, users, kyc, waccounts, deposits, withdrawals, transactions,
            balances, last, activity_logs, admin_logs>>

\* the pages: the state of the AdminDashboard and Signup components, the
\* toasts shown, the router's location, the backend calls issued and
\* returned, and the lines written by console.error
uivars == <<dash, signup, toasts, location, calls, logged>>

\* ------------------------------------------------------------------ bounds
\* rows held by deposits + withdrawals + kyc together (RLS specification)
MaxRows == 2
\* rows held by one table in the single-table specifications
MaxTable == 2

\* ------------------------------------------------------------- SQL values
NULL == "NULL"
NULLNUM == <<>>
Num(n) == <<n>>

\* amount - fee, fee >= 0, amount > 0 ... as SQL evaluates them on numerics:
\* an operand that is NULL makes the result NULL (unknown).
SqlMinus(a, b) == IF a = NULLNUM \/ b = NULLNUM THEN NULLNUM ELSE Num(a[1] - b[1])

\* A CHECK constraint is violated only when its expression is FALSE; it
\* passes when the expression is TRUE or NULL.
CheckGt0(a) == a = NULLNUM \/ a[1] > 0
CheckGe0(a) == a = NULLNUM \/ a[1] >= 0
CheckIn(v, S) == v = NULL \/ v \in S

\* auth identities; SERVICE is a session that is not subject to RLS (the
\* table owner / service role: RLS is enabled, not forced).
UserIds == {"u1", "u2", "a1"}
SERVICE == "service_role"
Callers == UserIds \cup {SERVICE}

BypassRls(c) == c = SERVICE

\* ------------------------------------------------------------ enum columns
RoleValues == {"user", "admin", "support"}
KycStatusValues == {"pending", "under_review", "approved", "rejected"}
AccountStatusValues == {"active", "suspended", "closed"}
DepositStatusValues == {"pending", "under_review", "approved", "rejected", "completed"}
WithdrawalStatusValues == {"pending", "approved", "rejected", "processing", "completed", "failed"}
AccountTypeValues == {"bank", "crypto", "paypal"}
CryptoTypeValues == {"bitcoin", "ethereum", "litecoin", "ripple", "solana", "usdc", "tether"}
TransactionTypeValues == {"deposit", "withdrawal", "fee", "interest"}

\* --------------------------------------------------------------- helpers
\* UPDATE ... SET: the columns named in set replace the old row's.
Override(old, set) == [c \in DOMAIN old |-> IF c \in DOMAIN set THEN set[c] ELSE old[c]]

\* INSERT: a column left out of the statement takes the column's DEFAULT.
WithDefaults(in, dflt) == [c \in DOMAIN dflt |-> IF c \in DOMAIN in THEN in[c] ELSE dflt[c]]

\* gen_random_uuid(): a key no row of the table holds.
FreshId(table) == CHOOSE i \in 1..(Cardinality(table) + 1) : \A r \in table : r.id # i

NoRow == [id |-> 0]

\* mutant: the role test left out of the sub-select
AdminExists_any_role(c) == c \in DOMAIN users
\* EXISTS (SELECT 1 FROM public.users WHERE id = auth.uid() AND role = 'admin')
AdminExists(c) == c \in DOMAIN users /\ users[c].role = "admin"

\* the outcome of the last statement: the statement, its caller, the row it
\* tried to write (row), the row it addressed (old), the error it raised
\* ("none": no error) and the rows it returned or affected.
Result(op, tbl, c, row, old, err, rows) ==
  [op |-> op, tbl |-> tbl, caller |-> c, row |-> row, old |-> old, err |-> err, rows |-> rows]

\* an UPDATE addresses one row: a row the caller may not see or update is
\* skipped silently (no error, no row affected); a new row that fails a
\* WITH CHECK raises an RLS error before the constraints are checked.
StatementError(visible, pass, cons) ==
  IF ~visible THEN "none" ELSE IF ~pass THEN "rls" ELSE cons

\* ============================================================ users/profiles
\* generation 1: public.users
users_constraints(r) ==
  IF r.role = NULL THEN "not_null"
  ELSE IF ~(CheckIn(r.role, RoleValues) /\ CheckIn(r.kyc_status, KycStatusValues)
            /\ CheckIn(r.account_status, AccountStatusValues)) THEN "check"
  ELSE "none"

\* generation 2: public.profiles (role is nullable)
profiles_constraints(r) ==
  IF ~(CheckIn(r.role, RoleValues) /\ CheckIn(r.kyc_status, KycStatusValues)
       /\ CheckIn(r.account_status, AccountStatusValues)) THEN "check"
  ELSE "none"

users_read_own(c, r) == c = r.id
admins_read_all_users(c, r) == AdminExists(c)
users_update_own_USING(c, r) == c = r.id
\* mutant: WITH CHECK (auth.uid() = id), the role not pinned
users_update_own_CHECK_no_role(c, r) == c = r.id
\* role = (SELECT role FROM public.users WHERE id = auth.uid())
users_update_own_CHECK(c, r) == c = r.id /\ r.role # NULL /\ r.role = users[c].role

users_read_own_profile(c, r) == c = r.id
admins_read_all_profiles(c, r) == AdminExists(c)

UsersSelect(c, r) ==
  IF gen = 1 THEN users_read_own(c, r) \/ admins_read_all_users(c, r)
  ELSE users_read_own_profile(c, r) \/ admins_read_all_profiles(c, r)
\* generation 2 declares no UPDATE policy on profiles
UsersUpdateUsing(c, r) == IF gen = 1 THEN users_update_own_USING(c, r) ELSE FALSE
UsersUpdateCheck(c, r) == IF gen = 1 THEN users_update_own_CHECK(c, r) ELSE FALSE
UsersConstraints(r) == IF gen = 1 THEN users_constraints(r) ELSE profiles_constraints(r)

unchanged_but_users == <<gen, kyc, waccounts, deposits, withdrawals, transactions, balances,
  activity_logs, admin_logs, uivars, sessions>>

\* UPDATE users/profiles SET <set> WHERE id = <id>
UpdateUser(c, id, set) ==
  LET old == users[id]
      new == Override(old, set)
      visible == BypassRls(c) \/ (UsersSelect(c, old) /\ UsersUpdateUsing(c, old))
      pass == BypassRls(c) \/ (UsersUpdateCheck(c, new) /\ UsersSelect(c, new))
      err == StatementError(visible, pass, UsersConstraints(new))
      written == visible /\ err = "none"
  IN /\ users' = IF written THEN [users EXCEPT ![id] = new] ELSE users
     /\ last' = Result("update", "users", c, new, old, err, IF written THEN {new} ELSE {})
     /\ UNCHANGED unchanged_but_users

\* ================================================================= deposits
\* the columns modelled, each with its DEFAULT (NULL where none is declared)
deposits_defaults == [user_id |-> NULL, amount |-> NULLNUM, status |-> "pending"]

\* generation 1: amount NOT NULL CHECK (amount > 0), status NOT NULL CHECK (IN ...)
deposits_constraints(r) ==
  IF r.user_id = NULL \/ r.amount = NULLNUM \/ r.status = NULL THEN "not_null"
  ELSE IF ~(CheckGt0(r.amount) /\ CheckIn(r.status, DepositStatusValues)) THEN "check"
  ELSE IF r.user_id \notin DOMAIN users THEN "fk"
  ELSE "none"

\* generation 2: status is nullable
deposits_constraints_2(r) ==
  IF r.user_id = NULL \/ r.amount = NULLNUM THEN "not_null"
  ELSE IF ~(CheckGt0(r.amount) /\ CheckIn(r.status, DepositStatusValues)) THEN "check"
  ELSE IF r.user_id \notin DOMAIN users THEN "fk"
  ELSE "none"

\* mutant: USING (auth.uid() IS NOT NULL)
users_read_own_deposits_any_user(c, r) == c \in UserIds
users_read_own_deposits(c, r) == c = r.user_id
admins_read_all_deposits(c, r) == AdminExists(c)
\* mutant: the status test left out of the WITH CHECK
users_insert_own_deposits_any_status(c, r) == c = r.user_id
users_insert_own_deposits(c, r) == c = r.user_id /\ r.status = "pending"
admins_update_deposits_USING(c, r) == AdminExists(c)
admins_update_deposits_CHECK(c, r) == AdminExists(c)

users_read_own_deposits_2(c, r) == c = r.user_id
admins_read_all_deposits_2(c, r) == AdminExists(c)

DepositsSelect(c, r) ==
  IF gen = 1 THEN users_read_own_deposits(c, r) \/ admins_read_all_deposits(c, r)
  ELSE users_read_own_deposits_2(c, r) \/ admins_read_all_deposits_2(c, r)
\* generation 2 declares no INSERT and no UPDATE policy on deposits
DepositsInsertCheck(c, r) == IF gen = 1 THEN users_insert_own_deposits(c, r) ELSE FALSE
DepositsUpdateUsing(c, r) == IF gen = 1 THEN admins_update_deposits_USING(c, r) ELSE FALSE
DepositsUpdateCheck(c, r) == IF gen = 1 THEN admins_update_deposits_CHECK(c, r) ELSE FALSE
DepositsConstraints(r) == IF gen = 1 THEN deposits_constraints(r) ELSE deposits_constraints_2(r)

unchanged_but_deposits == <<gen, users, kyc, waccounts, withdrawals, transactions, balances,
  activity_logs, admin_logs, uivars, sessions>>

\* INSERT INTO deposits (<columns of in>) VALUES (...)
InsertDeposit(c, in) ==
  LET new == WithDefaults(in, deposits_defaults) @@ [id |-> FreshId(deposits)]
      pass == BypassRls(c) \/ DepositsInsertCheck(c, new)
      err == StatementError(TRUE, pass, DepositsConstraints(new))
  IN /\ deposits' = IF err = "none" THEN deposits \cup {new} ELSE deposits
     /\ last' = Result("insert", "deposits", c, new, NoRow, err, IF err = "none" THEN {new} ELSE {})
     /\ UNCHANGED unchanged_but_deposits

\* UPDATE deposits SET <set> WHERE id = <id>
UpdateDepositStatement(c, id, set) ==
  \E old \in deposits :
    /\ old.id = id
    /\ LET new == Override(old, set)
           visible == BypassRls(c) \/ (DepositsSelect(c, old) /\ DepositsUpdateUsing(c, old))
           pass == BypassRls(c) \/ (DepositsUpdateCheck(c, new) /\ DepositsSelect(c, new))
           err == StatementError(visible, pass, DepositsConstraints(new))
           written == visible /\ err = "none"
       IN /\ deposits' = IF written THEN (deposits \ {old}) \cup {new} ELSE deposits
          /\ last' = Result("update", "deposits", c, new, old, err, IF written THEN {new} ELSE {})

UpdateDeposit(c, id, set) ==
  UpdateDepositStatement(c, id, set) /\ UNCHANGED unchanged_but_deposits

\* SELECT * FROM deposits
SelectDepositsStatement(c) ==
  /\ last' = Result("select", "deposits", c, NoRow, NoRow, "none",
                    {r \in deposits : BypassRls(c) \/ DepositsSelect(c, r)})
  /\ UNCHANGED <<deposits>>

SelectDeposits(c) ==
  SelectDepositsStatement(c) /\ UNCHANGED unchanged_but_deposits

\* ====================================================================== kyc
\* kyc_verifications (generation 1) / kyc_documents (generation 2)
kyc_defaults == [user_id |-> NULL, status |-> "pending"]

\* mutant: the table declared without UNIQUE(user_id)
kyc_verifications_constraints_no_unique(r, others) ==
  IF r.user_id = NULL \/ r.status = NULL THEN "not_null"
  ELSE IF ~CheckIn(r.status, KycStatusValues) THEN "check"
  ELSE IF r.user_id \notin DOMAIN users THEN "fk"
  ELSE "none"

\* generation 1: status NOT NULL CHECK (IN ...), UNIQUE(user_id)
kyc_verifications_constraints(r, others) ==
  IF r.user_id = NULL \/ r.status = NULL THEN "not_null"
  ELSE IF ~CheckIn(r.status, KycStatusValues) THEN "check"
  ELSE IF \E o \in others : o.user_id = r.user_id THEN "unique"
  ELSE IF r.user_id \notin DOMAIN users THEN "fk"
  ELSE "none"

\* generation 2: status is nullable, UNIQUE(user_id)
kyc_documents_constraints(r, others) ==
  IF r.user_id = NULL THEN "not_null"
  ELSE IF ~CheckIn(r.status, KycStatusValues) THEN "check"
  ELSE IF \E o \in others : o.user_id = r.user_id THEN "unique"
  ELSE IF r.user_id \notin DOMAIN users THEN "fk"
  ELSE "none"

users_read_own_kyc(c, r) == c = r.user_id
admins_read_all_kyc(c, r) == AdminExists(c)
users_insert_own_kyc(c, r) == c = r.user_id
users_update_own_kyc_USING(c, r) == c = r.user_id /\ r.status = "pending"
users_update_own_kyc_CHECK(c, r) == c = r.user_id
admins_update_kyc_USING(c, r) == AdminExists(c)
admins_update_kyc_CHECK(c, r) == AdminExists(c)

users_read_own_kyc_2(c, r) == c = r.user_id
admins_read_all_kyc_2(c, r) == AdminExists(c)
users_insert_kyc(c, r) == c = r.user_id
users_update_kyc_USING(c, r) == c = r.user_id
users_update_kyc_CHECK(c, r) == c = r.user_id

KycSelect(c, r) ==
  IF gen = 1 THEN users_read_own_kyc(c, r) \/ admins_read_all_kyc(c, r)
  ELSE users_read_own_kyc_2(c, r) \/ admins_read_all_kyc_2(c, r)
KycInsertCheck(c, r) == IF gen = 1 THEN users_insert_own_kyc(c, r) ELSE users_insert_kyc(c, r)
\* the policies of one command are OR-ed: USING with USING, WITH CHECK with WITH CHECK
KycUpdateUsing(c, r) ==
  IF gen = 1 THEN users_update_own_kyc_USING(c, r) \/ admins_update_kyc_USING(c, r)
  ELSE users_update_kyc_USING(c, r)
KycUpdateCheck(c, r) ==
  IF gen = 1 THEN users_update_own_kyc_CHECK(c, r) \/ admins_update_kyc_CHECK(c, r)
  ELSE users_update_kyc_CHECK(c, r)
KycConstraints(r, others) ==
  IF gen = 1 THEN kyc_verifications_constraints(r, others) ELSE kyc_documents_constraints(r, others)

unchanged_but_kyc == <<gen, users, waccounts, deposits, withdrawals, transactions, balances,
  activity_logs, admin_logs, uivars, sessions>>

InsertKyc(c, in) ==
  LET new == WithDefaults(in, kyc_defaults) @@ [id |-> FreshId(kyc)]
      pass == BypassRls(c) \/ KycInsertCheck(c, new)
      err == StatementError(TRUE, pass, KycConstraints(new, kyc))
  IN /\ kyc' = IF err = "none" THEN kyc \cup {new} ELSE kyc
     /\ last' = Result("insert", "kyc", c, new, NoRow, err, IF err = "none" THEN {new} ELSE {})
     /\ UNCHANGED unchanged_but_kyc

UpdateKyc(c, id, set) ==
  \E old \in kyc :
    /\ old.id = id
    /\ LET new == Override(old, set)
           visible == BypassRls(c) \/ (KycSelect(c, old) /\ KycUpdateUsing(c, old))
           pass == BypassRls(c) \/ (KycUpdateCheck(c, new) /\ KycSelect(c, new))
           err == StatementError(visible, pass, KycConstraints(new, kyc \ {old}))
           written == visible /\ err = "none"
       IN /\ kyc' = IF written THEN (kyc \ {old}) \cup {new} ELSE kyc
          /\ last' = Result("update", "kyc", c, new, old, err, IF written THEN {new} ELSE {})
          /\ UNCHANGED unchanged_but_kyc

SelectKyc(c) ==
  /\ last' = Result("select", "kyc", c, NoRow, NoRow, "none",
                    {r \in kyc : BypassRls(c) \/ KycSelect(c, r)})
  /\ UNCHANGED <<kyc>>
  /\ UNCHANGED unchanged_but_kyc

\* ====================================================== withdrawal_accounts
waccounts_defaults ==
  [user_id |-> NULL, account_type |-> NULL, account_number |-> NULL,
   account_holder_name |-> NULL, crypto_address |-> NULL, crypto_type |-> NULL,
   paypal_email |-> NULL]

\* mutant: the crypto branch tests crypto_type only
withdrawal_accounts_type_check_no_address(r) ==
  CASE r.account_type = "bank" -> r.account_number # NULL /\ r.account_holder_name # NULL
    [] r.account_type = "crypto" -> r.crypto_type # NULL
    [] r.account_type = "paypal" -> r.paypal_email # NULL
    [] OTHER -> FALSE

\* CHECK (CASE WHEN account_type = 'bank' THEN ... ELSE FALSE END)
withdrawal_accounts_type_check(r) ==
  CASE r.account_type = "bank" -> r.account_number # NULL /\ r.account_holder_name # NULL
    [] r.account_type = "crypto" -> r.crypto_address # NULL /\ r.crypto_type # NULL
    [] r.account_type = "paypal" -> r.paypal_email # NULL
    [] OTHER -> FALSE

\* the same table definition in both generations
withdrawal_accounts_constraints(r) ==
  IF r.user_id = NULL \/ r.account_type = NULL THEN "not_null"
  ELSE IF ~(CheckIn(r.account_type, AccountTypeValues) /\ CheckIn(r.crypto_type, CryptoTypeValues)
            /\ withdrawal_accounts_type_check(r)) THEN "check"
  ELSE IF r.user_id \notin DOMAIN users THEN "fk"
  ELSE "none"

users_read_own_withdrawal_accounts(c, r) == c = r.user_id
admins_read_all_withdrawal_accounts(c, r) == AdminExists(c)
users_insert_own_withdrawal_accounts(c, r) == c = r.user_id
users_update_own_withdrawal_accounts_USING(c, r) == c = r.user_id
users_update_own_withdrawal_accounts_CHECK(c, r) == c = r.user_id
\* mutant: USING (true)
users_delete_own_withdrawal_accounts_any(c, r) == TRUE
users_delete_own_withdrawal_accounts(c, r) == c = r.user_id

\* generation 2 declares the two SELECT policies only
users_read_own_withdrawal_accounts_2(c, r) == c = r.user_id
admins_read_all_withdrawal_accounts_2(c, r) == AdminExists(c)

AccountsSelect(c, r) ==
  IF gen = 1 THEN users_read_own_withdrawal_accounts(c, r) \/ admins_read_all_withdrawal_accounts(c, r)
  ELSE users_read_own_withdrawal_accounts_2(c, r) \/ admins_read_all_withdrawal_accounts_2(c, r)
AccountsInsertCheck(c, r) == IF gen = 1 THEN users_insert_own_withdrawal_accounts(c, r) ELSE FALSE
AccountsUpdateUsing(c, r) == IF gen = 1 THEN users_update_own_withdrawal_accounts_USING(c, r) ELSE FALSE
AccountsUpdateCheck(c, r) == IF gen = 1 THEN users_update_own_withdrawal_accounts_CHECK(c, r) ELSE FALSE
AccountsDeleteUsing(c, r) == IF gen = 1 THEN users_delete_own_withdrawal_accounts(c, r) ELSE FALSE

unchanged_but_waccounts == <<gen, users, kyc, deposits, withdrawals, transactions, balances,
  activity_logs, admin_logs, uivars, sessions>>

InsertAccount(c, in) ==
  LET new == WithDefaults(in, waccounts_defaults) @@ [id |-> FreshId(waccounts)]
      pass == BypassRls(c) \/ AccountsInsertCheck(c, new)
      err == StatementError(TRUE, pass, withdrawal_accounts_constraints(new))
  IN /\ waccounts' = IF err = "none" THEN waccounts \cup {new} ELSE waccounts
     /\ last' = Result("insert", "withdrawal_accounts", c, new, NoRow, err,
                       IF err = "none" THEN {new} ELSE {})
     /\ UNCHANGED unchanged_but_waccounts

UpdateAccount(c, id, set) ==
  \E old \in waccounts :
    /\ old.id = id
    /\ LET new == Override(old, set)
           visible == BypassRls(c) \/ (AccountsSelect(c, old) /\ AccountsUpdateUsing(c, old))
           pass == BypassRls(c) \/ (AccountsUpdateCheck(c, new) /\ AccountsSelect(c, new))
           err == StatementError(visible, pass, withdrawal_accounts_constraints(new))
           written == visible /\ err = "none"
       IN /\ waccounts' = IF written THEN (waccounts \ {old}) \cup {new} ELSE waccounts
          /\ last' = Result("update", "withdrawal_accounts", c, new, old, err,
                            IF written THEN {new} ELSE {})
          /\ UNCHANGED unchanged_but_waccounts

\* DELETE FROM withdrawal_accounts WHERE id = <id>; withdrawals.withdrawal_account_id
\* references the table without ON DELETE, so a referenced account stays.
DeleteAccount(c, id) ==
  \E old \in waccounts :
    /\ old.id = id
    /\ LET visible == BypassRls(c) \/ (AccountsSelect(c, old) /\ AccountsDeleteUsing(c, old))
           cons == IF \E w \in withdrawals : w.withdrawal_account_id = Num(id) THEN "fk" ELSE "none"
           err == StatementError(visible, TRUE, cons)
           written == visible /\ err = "none"
       IN /\ waccounts' = IF written THEN waccounts \ {old} ELSE waccounts
          /\ last' = Result("delete", "withdrawal_accounts", c, NoRow, old, err,
                            IF written THEN {old} ELSE {})
          /\ UNCHANGED unchanged_but_waccounts

\* ============================================================== withdrawals
withdrawals_defaults ==
  [user_id |-> NULL, withdrawal_account_id |-> NULLNUM, amount |-> NULLNUM,
   fee |-> Num(0), net_amount |-> NULLNUM, status |-> "pending"]

\* mutant: a plain column, which keeps the value it was given
withdrawals_net_amount_stored(r) == r.net_amount
\* net_amount NUMERIC(15, 2) GENERATED ALWAYS AS (amount - fee) STORED
withdrawals_net_amount(r) == SqlMinus(r.amount, r.fee)

\* a statement that names a generated column with a value is refused
WritesGenerated(cols) == "net_amount" \in cols

\* generation 1: withdrawal_account_id NOT NULL, fee CHECK (fee >= 0), status NOT NULL
withdrawals_constraints(r) ==
  IF r.user_id = NULL \/ r.withdrawal_account_id = NULLNUM \/ r.amount = NULLNUM
     \/ r.status = NULL THEN "not_null"
  ELSE IF ~(CheckGt0(r.amount) /\ CheckGe0(r.fee)
            /\ CheckIn(r.status, WithdrawalStatusValues)) THEN "check"
  ELSE IF r.user_id \notin DOMAIN users
          \/ ~(\E a \in waccounts : Num(a.id) = r.withdrawal_account_id) THEN "fk"
  ELSE "none"

\* generation 2: withdrawal_account_id and status nullable, no CHECK on fee
withdrawals_constraints_2(r) ==
  IF r.user_id = NULL \/ r.amount = NULLNUM THEN "not_null"
  ELSE IF ~(CheckGt0(r.amount) /\ CheckIn(r.status, WithdrawalStatusValues)) THEN "check"
  ELSE IF r.user_id \notin DOMAIN users
          \/ (r.withdrawal_account_id # NULLNUM
              /\ ~(\E a \in waccounts : Num(a.id) = r.withdrawal_account_id)) THEN "fk"
  ELSE "none"

users_read_own_withdrawals(c, r) == c = r.user_id
admins_read_all_withdrawals(c, r) == AdminExists(c)
users_insert_own_withdrawals(c, r) == c = r.user_id /\ r.status = "pending"
admins_update_withdrawals_USING(c, r) == AdminExists(c)
admins_update_withdrawals_CHECK(c, r) == AdminExists(c)

\* generation 2 enables RLS on withdrawals and declares no policy for it
WithdrawalsSelect(c, r) ==
  IF gen = 1 THEN users_read_own_withdrawals(c, r) \/ admins_read_all_withdrawals(c, r) ELSE FALSE
WithdrawalsInsertCheck(c, r) == IF gen = 1 THEN users_insert_own_withdrawals(c, r) ELSE FALSE
WithdrawalsUpdateUsing(c, r) == IF gen = 1 THEN admins_update_withdrawals_USING(c, r) ELSE FALSE
WithdrawalsUpdateCheck(c, r) == IF gen = 1 THEN admins_update_withdrawals_CHECK(c, r) ELSE FALSE
WithdrawalsConstraints(r) ==
  IF gen = 1 THEN withdrawals_constraints(r) ELSE withdrawals_constraints_2(r)

unchanged_but_withdrawals == <<gen, users, kyc, waccounts, deposits, transactions, balances,
  activity_logs, admin_logs, uivars, sessions>>

InsertWithdrawal(c, in) ==
  LET given == WithDefaults(in, withdrawals_defaults) @@ [id |-> FreshId(withdrawals)]
      new == [given EXCEPT !.net_amount = withdrawals_net_amount(given)]
      pass == BypassRls(c) \/ WithdrawalsInsertCheck(c, new)
      err == IF WritesGenerated(DOMAIN in) THEN "generated"
             ELSE StatementError(TRUE, pass, WithdrawalsConstraints(new))
  IN /\ withdrawals' = IF err = "none" THEN withdrawals \cup {new} ELSE withdrawals
     /\ last' = Result("insert", "withdrawals", c, new, NoRow, err,
                       IF err = "none" THEN {new} ELSE {})
     /\ UNCHANGED unchanged_but_withdrawals

UpdateWithdrawalStatement(c, id, set) ==
  \E old \in withdrawals :
    /\ old.id = id
    /\ LET given == Override(old, set)
           new == [given EXCEPT !.net_amount = withdrawals_net_amount(given)]
           visible == BypassRls(c) \/ (WithdrawalsSelect(c, old) /\ WithdrawalsUpdateUsing(c, old))
           pass == BypassRls(c) \/ (WithdrawalsUpdateCheck(c, new) /\ WithdrawalsSelect(c, new))
           err == IF WritesGenerated(DOMAIN set) THEN "generated"
                  ELSE StatementError(visible, pass, WithdrawalsConstraints(new))
           written == visible /\ err = "none"
       IN /\ withdrawals' = IF written THEN (withdrawals \ {old}) \cup {new} ELSE withdrawals
          /\ last' = Result("update", "withdrawals", c, new, old, err,
                            IF written THEN {new} ELSE {})

UpdateWithdrawal(c, id, set) ==
  UpdateWithdrawalStatement(c, id, set) /\ UNCHANGED unchanged_but_withdrawals

SelectWithdrawalsStatement(c) ==
  /\ last' = Result("select", "withdrawals", c, NoRow, NoRow, "none",
                    {r \in withdrawals : BypassRls(c) \/ WithdrawalsSelect(c, r)})
  /\ UNCHANGED <<withdrawals>>

SelectWithdrawals(c) ==
  SelectWithdrawalsStatement(c) /\ UNCHANGED unchanged_but_withdrawals

\* ============================================================= transactions
\* declared by generation 1 only
transactions_defaults ==
  [user_id |-> NULL, type |-> NULL, amount |-> NULLNUM, deposit_id |-> NULLNUM,
   withdrawal_id |-> NULLNUM]

transactions_constraints(r) ==
  IF r.user_id = NULL \/ r.type = NULL \/ r.amount = NULLNUM THEN "not_null"
  ELSE IF ~CheckIn(r.type, TransactionTypeValues) THEN "check"
  ELSE IF r.user_id \notin DOMAIN users
          \/ (r.deposit_id # NULLNUM /\ ~(\E d \in deposits : Num(d.id) = r.deposit_id))
          \/ (r.withdrawal_id # NULLNUM
              /\ ~(\E w \in withdrawals : Num(w.id) = r.withdrawal_id)) THEN "fk"
  ELSE "none"

users_read_own_transactions(c, r) == c = r.user_id
admins_read_all_transactions(c, r) == AdminExists(c)
authenticated_insert_transactions(c, r) == c = r.user_id

unchanged_but_transactions == <<gen, users, kyc, waccounts, deposits, withdrawals, balances,
  activity_logs, admin_logs, uivars, sessions>>

InsertTransaction(c, in) ==
  LET new == WithDefaults(in, transactions_defaults) @@ [id |-> FreshId(transactions)]
      pass == BypassRls(c) \/ authenticated_insert_transactions(c, new)
      err == IF gen # 1 THEN "undefined_table"
             ELSE StatementError(TRUE, pass, transactions_constraints(new))
  IN /\ transactions' = IF err = "none" THEN transactions \cup {new} ELSE transactions
     /\ last' = Result("insert", "transactions", c, new, NoRow, err,
                       IF err = "none" THEN {new} ELSE {})
     /\ UNCHANGED unchanged_but_transactions

\* no UPDATE and no DELETE policy is declared on transactions
TransactionsUpdateUsing(c, r) == FALSE
TransactionsDeleteUsing(c, r) == FALSE
TransactionsSelect(c, r) ==
  users_read_own_transactions(c, r) \/ admins_read_all_transactions(c, r)

UpdateTransaction(c, id, set) ==
  \E old \in transactions :
    /\ old.id = id
    /\ LET new == Override(old, set)
           visible == BypassRls(c) \/ (TransactionsSelect(c, old) /\ TransactionsUpdateUsing(c, old))
           pass == BypassRls(c) \/ (TransactionsUpdateUsing(c, new) /\ TransactionsSelect(c, new))
           err == StatementError(visible, pass, transactions_constraints(new))
           written == visible /\ err = "none"
       IN /\ transactions' = IF written THEN (transactions \ {old}) \cup {new} ELSE transactions
          /\ last' = Result("update", "transactions", c, new, old, err,
                            IF written THEN {new} ELSE {})
          /\ UNCHANGED unchanged_but_transactions

DeleteTransaction(c, id) ==
  \E old \in transactions :
    /\ old.id = id
    /\ LET written == BypassRls(c) \/ (TransactionsSelect(c, old) /\ TransactionsDeleteUsing(c, old))
       IN /\ transactions' = IF written THEN transactions \ {old} ELSE transactions
          /\ last' = Result("delete", "transactions", c, NoRow, old, "none",
                            IF written THEN {old} ELSE {})
          /\ UNCHANGED unchanged_but_transactions

\* ===================================================== activity_logs, admin_logs
DeviceTypeValues == {"mobile", "tablet", "desktop"}

activity_logs_defaults == [user_id |-> NULL, action |-> NULL, device_type |-> NULL]

\* generation 1: device_type CHECK; generation 2: none
activity_logs_constraints(r) ==
  IF r.user_id = NULL \/ r.action = NULL THEN "not_null"
  ELSE IF gen = 1 /\ ~CheckIn(r.device_type, DeviceTypeValues) THEN "check"
  ELSE IF r.user_id \notin DOMAIN users THEN "fk"
  ELSE "none"

users_read_own_activity(c, r) == c = r.user_id
admins_read_all_activity(c, r) == AdminExists(c)
authenticated_insert_activity(c, r) == c = r.user_id

\* generation 2 declares users_read_own_activity only
ActivityLogsSelect(c, r) ==
  users_read_own_activity(c, r) \/ (gen = 1 /\ admins_read_all_activity(c, r))
ActivityLogsInsertCheck(c, r) == IF gen = 1 THEN authenticated_insert_activity(c, r) ELSE FALSE
\* mutant: an owner's UPDATE / DELETE policy as withdrawal_accounts has
ActivityLogsModifyUsing_own(c, r) == c = r.user_id
\* no UPDATE and no DELETE policy is declared on activity_logs
ActivityLogsModifyUsing(c, r) == FALSE

unchanged_but_activity_logs == <<gen, users, kyc, waccounts, deposits, withdrawals,
  transactions, balances, admin_logs, uivars, sessions>>

InsertActivityLog(c, in) ==
  LET new == WithDefaults(in, activity_logs_defaults) @@ [id |-> FreshId(activity_logs)]
      pass == BypassRls(c) \/ ActivityLogsInsertCheck(c, new)
      err == StatementError(TRUE, pass, activity_logs_constraints(new))
  IN /\ activity_logs' = IF err = "none" THEN activity_logs \cup {new} ELSE activity_logs
     /\ last' = Result("insert", "activity_logs", c, new, NoRow, err,
                       IF err = "none" THEN {new} ELSE {})
     /\ UNCHANGED unchanged_but_activity_logs

UpdateActivityLog(c, id, set) ==
  \E old \in activity_logs :
    /\ old.id = id
    /\ LET new == Override(old, set)
           visible == BypassRls(c) \/ (ActivityLogsSelect(c, old) /\ ActivityLogsModifyUsing(c, old))
           pass == BypassRls(c) \/ (ActivityLogsModifyUsing(c, new) /\ ActivityLogsSelect(c, new))
           err == StatementError(visible, pass, activity_logs_constraints(new))
           written == visible /\ err = "none"
       IN /\ activity_logs' = IF written THEN (activity_logs \ {old}) \cup {new}
                              ELSE activity_logs
          /\ last' = Result("update", "activity_logs", c, new, old, err,
                            IF written THEN {new} ELSE {})
          /\ UNCHANGED unchanged_but_activity_logs

DeleteActivityLog(c, id) ==
  \E old \in activity_logs :
    /\ old.id = id
    /\ LET written == BypassRls(c) \/ (ActivityLogsSelect(c, old) /\ ActivityLogsModifyUsing(c, old))
       IN /\ activity_logs' = IF written THEN activity_logs \ {old} ELSE activity_logs
          /\ last' = Result("delete", "activity_logs", c, NoRow, old, "none",
                            IF written THEN {old} ELSE {})
          /\ UNCHANGED unchanged_but_activity_logs

\* admin_logs: declared by generation 1 only
admin_logs_defaults == [admin_id |-> NULL, action |-> NULL]

admin_logs_constraints(r) ==
  IF r.admin_id = NULL \/ r.action = NULL THEN "not_null"
  ELSE IF r.admin_id \notin DOMAIN users THEN "fk"
  ELSE "none"

admins_read_admin_logs(c, r) == AdminExists(c)
admins_insert_admin_logs(c, r) == AdminExists(c)
\* no UPDATE and no DELETE policy is declared on admin_logs
AdminLogsModifyUsing(c, r) == FALSE

unchanged_but_admin_logs == <<gen, users, kyc, waccounts, deposits, withdrawals,
  transactions, balances, activity_logs, uivars, sessions>>

InsertAdminLog(c, in) ==
  LET new == WithDefaults(in, admin_logs_defaults) @@ [id |-> FreshId(admin_logs)]
      pass == BypassRls(c) \/ admins_insert_admin_logs(c, new)
      err == IF gen # 1 THEN "undefined_table"
             ELSE StatementError(TRUE, pass, admin_logs_constraints(new))
  IN /\ admin_logs' = IF err = "none" THEN admin_logs \cup {new} ELSE admin_logs
     /\ last' = Result("insert", "admin_logs", c, new, NoRow, err,
                       IF err = "none" THEN {new} ELSE {})
     /\ UNCHANGED unchanged_but_admin_logs

UpdateAdminLog(c, id, set) ==
  \E old \in admin_logs :
    /\ old.id = id
    /\ LET new == Override(old, set)
           visible == BypassRls(c) \/ (admins_read_admin_logs(c, old) /\ AdminLogsModifyUsing(c, old))
           pass == BypassRls(c) \/ (AdminLogsModifyUsing(c, new) /\ admins_read_admin_logs(c, new))
           err == StatementError(visible, pass, admin_logs_constraints(new))
           written == visible /\ err = "none"
       IN /\ admin_logs' = IF written THEN (admin_logs \ {old}) \cup {new} ELSE admin_logs
          /\ last' = Result("update", "admin_logs", c, new, old, err,
                            IF written THEN {new} ELSE {})
          /\ UNCHANGED unchanged_but_admin_logs

DeleteAdminLog(c, id) ==
  \E old \in admin_logs :
    /\ old.id = id
    /\ LET written == BypassRls(c) \/ (admins_read_admin_logs(c, old) /\ AdminLogsModifyUsing(c, old))
       IN /\ admin_logs' = IF written THEN admin_logs \ {old} ELSE admin_logs
          /\ last' = Result("delete", "admin_logs", c, NoRow, old, "none",
                            IF written THEN {old} ELSE {})
          /\ UNCHANGED unchanged_but_admin_logs

\* ========================================================= account_balances
\* declared by generation 2 only; its only policies are the two SELECT ones
account_balances_defaults ==
  [user_id |-> NULL, main_balance |-> Num(0), profit_balance |-> Num(0),
   total_deposited |-> Num(0), total_withdrawn |-> Num(0)]

account_balances_constraints(r, others) ==
  IF r.user_id = NULL THEN "not_null"
  ELSE IF ~(CheckGe0(r.main_balance) /\ CheckGe0(r.profit_balance)
            /\ CheckGe0(r.total_deposited) /\ CheckGe0(r.total_withdrawn)) THEN "check"
  ELSE IF \E o \in others : o.user_id = r.user_id THEN "unique"
  ELSE IF r.user_id \notin DOMAIN users THEN "fk"
  ELSE "none"

users_read_own_balances(c, r) == c = r.user_id
admins_read_all_balances(c, r) == AdminExists(c)

unchanged_but_balances == <<gen, users, kyc, waccounts, deposits, withdrawals, transactions,
  activity_logs, admin_logs, uivars, sessions>>

InsertBalance(c, in) ==
  LET new == WithDefaults(in, account_balances_defaults) @@ [id |-> FreshId(balances)]
      pass == BypassRls(c)
      err == IF gen # 2 THEN "undefined_table"
             ELSE StatementError(TRUE, pass, account_balances_constraints(new, balances))
  IN /\ balances' = IF err = "none" THEN balances \cup {new} ELSE balances
     /\ last' = Result("insert", "account_balances", c, new, NoRow, err,
                       IF err = "none" THEN {new} ELSE {})
     /\ UNCHANGED unchanged_but_balances

UpdateBalance(c, id, set) ==
  \E old \in balances :
    /\ old.id = id
    /\ LET new == Override(old, set)
           visible == BypassRls(c)
           err == StatementError(visible, TRUE, account_balances_constraints(new, balances \ {old}))
           written == visible /\ err = "none"
       IN /\ balances' = IF written THEN (balances \ {old}) \cup {new} ELSE balances
          /\ last' = Result("update", "account_balances", c, new, old, err,
                            IF written THEN {new} ELSE {})
          /\ UNCHANGED unchanged_but_balances

\* ==================================================== admin_dashboard_summary
\* declared by generation 1 only.  A view is expanded on every read and runs
\* with its owner's rights (no security_invoker option): RLS does not filter
\* the rows its sub-selects count, whoever reads it.
RECURSIVE SumAmount(_)
SumAmount(rows) ==
  IF rows = {} THEN 0
  ELSE LET r == CHOOSE x \in rows : TRUE
       IN (IF r.amount = NULLNUM THEN 0 ELSE r.amount[1]) + SumAmount(rows \ {r})

\* mutant: the view reads the tables with the reader's rights
pending_deposits_security_invoker(c) ==
  Cardinality({d \in deposits : d.status = "pending" /\ (BypassRls(c) \/ DepositsSelect(c, d))})
\* (SELECT COUNT(*) FROM public.deposits WHERE status = 'pending')
pending_deposits(c) == Cardinality({d \in deposits : d.status = "pending"})

admin_dashboard_summary(c) ==
  [total_users |-> Cardinality({u \in DOMAIN users : users[u].role = "user"}),
   kyc_approved_users |-> Cardinality({u \in DOMAIN users : users[u].kyc_status = "approved"}),
   pending_kyc |-> Cardinality({k \in kyc : k.status = "pending"}),
   pending_deposits |-> pending_deposits(c),
   pending_withdrawals |-> Cardinality({w \in withdrawals : w.status = "pending"}),
   total_deposits |-> SumAmount({d \in deposits : d.status = "completed"}),
   total_withdrawals |-> SumAmount({w \in withdrawals : w.status = "completed"})]

\* SELECT * FROM public.admin_dashboard_summary
SelectSummary(c) ==
  /\ last' = IF gen = 1
             THEN Result("select", "admin_dashboard_summary", c, NoRow, NoRow, "none",
                         {admin_dashboard_summary(c)})
             ELSE Result("select", "admin_dashboard_summary", c, NoRow, NoRow,
                         "undefined_table", {})
  /\ UNCHANGED <<gen, users, kyc, waccounts, deposits, withdrawals, transactions, balances,
                 activity_logs, admin_logs, uivars, sessions>>

\* =================================================================== pages
\* useState initial values of AdminDashboard (AdminDashboard.tsx 20-32); pc
\* is the await checkAdminAccess is at, fs the invocations of fetchStats in
\* the order they were started, each with the await it is at and the results
\* its queries have returned so far (its local constants)
\* the invocations of fetchStats followed: the one of the page load and one
\* started by a tab
FetchIds == {1, 2}

NoStats ==
  [totalUsers |-> 0, totalDeposits |-> 0, totalInvested |-> 0, pendingDeposits |-> 0,
   pendingWithdrawals |-> 0, pendingKYC |-> 0]

\* the queries of fetchStats, in the order they are awaited
FsQueries ==
  <<"userCount", "depositCount", "investments", "pendingDeposits", "pendingWithdrawals",
    "pendingKYC">>
FsQuerySet == {FsQueries[i] : i \in DOMAIN FsQueries}

\* an invocation of fetchStats at its first await
NewFetch == [pc |-> FsQueries[1], counts |-> [q \in FsQuerySet |-> NULLNUM]]

InitDash ==
  [pc |-> "mount", fs |-> <<>>, user |-> NULL, roleData |-> NULL, isAdmin |-> FALSE,
   loading |-> TRUE, stats |-> NoStats]

\* useState initial values of Signup, with the form as the visitor filled it
InitSignup(agreed, code) ==
  [pc |-> "form", agreedToTerms |-> agreed, referralCode |-> code, loading |-> FALSE,
   user |-> NULL, referrer |-> NULL]

\* two browser sessions signed in as the admin a1, each on a request list:
\* the table and row it works on, the status it read, the rows its UPDATE
\* affected
AdminSessions == {"s1", "s2"}
InitSessions ==
  [s \in AdminSessions |-> [pc |-> "idle", tbl |-> "none", id |-> 0, seen |-> NULL, affected |-> 0]]

InitPages(agreed, code) ==
  /\ dash = InitDash
  /\ signup = InitSignup(agreed, code)
  /\ toasts = <<>>
  /\ location = "/"
  /\ calls = <<>>
  /\ logged = <<>>
  /\ sessions = InitSessions

\* ===================================================================== Init
\* the users/profiles rows: created at signup outside the client's policies;
\* u1 has role user, u2 role support, a1 role admin
UserRow(id, role) ==
  [id |-> id, role |-> role, kyc_status |-> "pending", account_status |-> "active",
   phone |-> NULL]

InitUsers ==
  [u \in UserIds |-> UserRow(u, IF u = "a1" THEN "admin" ELSE IF u = "u2" THEN "support" ELSE "user")]

InitLast == Result("none", "none", SERVICE, NoRow, NoRow, "none", {})

\* two withdrawal accounts their owners created earlier
InitAccounts ==
  { [waccounts_defaults EXCEPT !.user_id = "u1", !.account_type = "paypal",
                               !.paypal_email = "p"] @@ [id |-> 1],
    [waccounts_defaults EXCEPT !.user_id = "u2", !.account_type = "paypal",
                               !.paypal_email = "p"] @@ [id |-> 2] }

InitTables(accounts) ==
  /\ gen \in {1, 2}
  /\ users = InitUsers
  /\ kyc = {}
  /\ waccounts = accounts
  /\ deposits = {}
  /\ withdrawals = {}
  /\ transactions = {}
  /\ balances = {}
  /\ last = InitLast
  /\ activity_logs = {}
  /\ admin_logs = {}

\* the database after a migration, the pages not yet used
InitDb(accounts) == InitTables(accounts) /\ InitPages(FALSE, <<>>)

\* ============================================================ backend calls
\* a call issued to the backend client and its settlement: the promise
\* resolves with data ("ok"), resolves with an error and null data
\* ("error"), or rejects ("throw")
Call(fn, args) == [ev |-> "call", fn |-> fn, val |-> args]
Return(fn, out) == [ev |-> "return", fn |-> fn, val |-> out]
Outcome(status, data) == [status |-> status, data |-> data]
Failed == {Outcome("error", NULL), Outcome("throw", NULL)}
NoArgs == [none |-> NULL]

\* JavaScript truthiness of a value held as text: null and false are falsy
Truthy(v) == v \notin {NULL, "false"}

Toast(kind, msg) == [kind |-> kind, msg |-> msg]

\* =========================================================== AdminDashboard
\* useEffect(() => { checkAdminAccess(); }, []): runs to its first await
Mount ==
  /\ dash.pc = "mount"
  /\ dash' = [dash EXCEPT !.pc = "getUser"]
  /\ calls' = Append(calls, Call("auth.getUser", NoArgs))
  /\ UNCHANGED <<dbvars, sessions, signup, toasts, location, logged>>

\* catch (error) { console.error('Auth error:', error); navigate('/admin/login') }
\* finally { setLoading(false) }
checkAdminAccess_catch(fn, out) ==
  /\ dash' = [dash EXCEPT !.pc = "done", !.loading = FALSE]
  /\ calls' = Append(calls, Return(fn, out))
  /\ logged' = Append(logged, "Auth error:")
  /\ location' = "/admin/login"
  /\ UNCHANGED <<dbvars, sessions, signup, toasts>>

\* mutant: setLoading(false) at the end of the try block instead of in
\* finally, so the early return of the no-user path skips it
checkAdminAccess_getUser_no_finally(out) ==
  /\ dash.pc = "getUser"
  /\ IF out.status = "throw" THEN checkAdminAccess_catch("auth.getUser", out)
     ELSE IF ~Truthy(out.data)
     THEN /\ dash' = [dash EXCEPT !.pc = "done"]
          /\ calls' = Append(calls, Return("auth.getUser", out))
          /\ location' = "/admin/login"
          /\ UNCHANGED <<dbvars, sessions, signup, toasts, logged>>
     ELSE /\ dash' = [dash EXCEPT !.pc = "has_role", !.user = out.data]
          /\ calls' = calls \o <<Return("auth.getUser", out),
                                  Call("has_role", [_user_id |-> out.data, _role |-> "admin"])>>
          /\ UNCHANGED <<dbvars, sessions, signup, toasts, location, logged>>

\* const { data: { user } } = await supabase.auth.getUser(); if (!user) ...
checkAdminAccess_getUser(out) ==
  /\ dash.pc = "getUser"
  /\ IF out.status = "throw" THEN checkAdminAccess_catch("auth.getUser", out)
     ELSE IF ~Truthy(out.data)
     THEN /\ dash' = [dash EXCEPT !.pc = "done", !.loading = FALSE]
          /\ calls' = Append(calls, Return("auth.getUser", out))
          /\ location' = "/admin/login"
          /\ UNCHANGED <<dbvars, sessions, signup, toasts, logged>>
     ELSE /\ dash' = [dash EXCEPT !.pc = "has_role", !.user = out.data]
          /\ calls' = calls \o <<Return("auth.getUser", out),
                                  Call("has_role", [_user_id |-> out.data, _role |-> "admin"])>>
          /\ UNCHANGED <<dbvars, sessions, signup, toasts, location, logged>>

\* const { data: roleData } = await supabase.rpc('has_role', ...); if (!roleData) ...
checkAdminAccess_has_role(out) ==
  /\ dash.pc = "has_role"
  /\ IF out.status = "throw" THEN checkAdminAccess_catch("has_role", out)
     ELSE IF ~Truthy(out.data)
     THEN /\ dash' = [dash EXCEPT !.pc = "signOut", !.roleData = out.data]
          /\ toasts' = Append(toasts, Toast("error", "Unauthorized: Admin access required"))
          /\ calls' = calls \o <<Return("has_role", out), Call("auth.signOut", NoArgs)>>
          /\ UNCHANGED <<dbvars, sessions, signup, location, logged>>
     ELSE \* setIsAdmin(true); fetchStats() runs to its first await; finally
          /\ dash' = [dash EXCEPT !.pc = "done", !.roleData = out.data, !.isAdmin = TRUE,
                                  !.loading = FALSE, !.fs = Append(@, NewFetch)]
          /\ calls' = calls \o <<Return("has_role", out), Call("fetchStats", NoArgs),
                                  Call(FsQueries[1], NoArgs)>>
          /\ UNCHANGED <<dbvars, sessions, signup, toasts, location, logged>>

\* mutant: the return after navigate left out, so the admin path follows
checkAdminAccess_signOut_no_return(out) ==
  /\ dash.pc = "signOut"
  /\ dash' = [dash EXCEPT !.pc = "done", !.loading = FALSE, !.isAdmin = TRUE,
                          !.fs = Append(@, NewFetch)]
  /\ calls' = calls \o <<Return("auth.signOut", out), Call("fetchStats", NoArgs),
                          Call(FsQueries[1], NoArgs)>>
  /\ location' = "/admin/login"
  /\ UNCHANGED <<dbvars, sessions, signup, toasts, logged>>

\* await supabase.auth.signOut(); navigate('/admin/login'); return
checkAdminAccess_signOut(out) ==
  /\ dash.pc = "signOut"
  /\ IF out.status = "throw" THEN checkAdminAccess_catch("auth.signOut", out)
     ELSE /\ dash' = [dash EXCEPT !.pc = "done", !.loading = FALSE]
          /\ calls' = Append(calls, Return("auth.signOut", out))
          /\ location' = "/admin/login"
          /\ UNCHANGED <<dbvars, sessions, signup, toasts, logged>>

\* count || 0, and investments?.reduce(...) || 0
OrZero(v) == IF v = NULLNUM THEN 0 ELSE v[1]

\* the object fetchStats hands to setStats
StatsOf(counts) ==
  [totalUsers |-> OrZero(counts.userCount),
   totalDeposits |-> OrZero(counts.depositCount),
   totalInvested |-> OrZero(counts.investments),
   pendingDeposits |-> OrZero(counts.pendingDeposits),
   pendingWithdrawals |-> OrZero(counts.pendingWithdrawals),
   pendingKYC |-> OrZero(counts.pendingKYC)]

\* fetchStats, invocation k: the awaited query returns; the next one is
\* issued, and after the last one setStats stores all six results; a
\* rejected query goes to
\* catch (error) { console.error('Error fetching stats:', error) }
fetchStats_query(k, out) ==
  /\ k \in DOMAIN dash.fs
  /\ dash.fs[k].pc \in FsQuerySet
  /\ LET q == dash.fs[k].pc
         i == CHOOSE n \in DOMAIN FsQueries : FsQueries[n] = q
         counts == [dash.fs[k].counts EXCEPT ![q] = out.data]
     IN IF out.status = "throw"
        THEN /\ dash' = [dash EXCEPT !.fs[k].pc = "failed"]
             /\ calls' = Append(calls, Return(q, out))
             /\ logged' = Append(logged, "Error fetching stats:")
             /\ UNCHANGED <<dbvars, sessions, signup, toasts, location>>
        ELSE IF i < Len(FsQueries)
        THEN /\ dash' = [dash EXCEPT !.fs[k].pc = FsQueries[i + 1], !.fs[k].counts = counts]
             /\ calls' = calls \o <<Return(q, out), Call(FsQueries[i + 1], NoArgs)>>
             /\ UNCHANGED <<dbvars, sessions, signup, toasts, location, logged>>
        ELSE /\ dash' = [dash EXCEPT !.fs[k].pc = "done", !.fs[k].counts = counts,
                                     !.stats = StatsOf(counts)]
             /\ calls' = Append(calls, Return(q, out))
             /\ UNCHANGED <<dbvars, sessions, signup, toasts, location, logged>>

\* what the component returns: if (loading) ...; if (!isAdmin) ...; the page
\* with the summary tiles and the tab of the selected menu item
View ==
  IF dash.loading THEN "Loading..."
  ELSE IF ~dash.isAdmin THEN "Access Denied"
  ELSE "dashboard"

\* a rendered tab calls its onUpdate / onStatsUpdate prop: fetchStats() runs
\* to its first await, whether or not an earlier invocation is still waiting
onUpdate ==
  /\ View = "dashboard"
  /\ Len(dash.fs) < Cardinality(FetchIds)
  /\ dash' = [dash EXCEPT !.fs = Append(@, NewFetch)]
  /\ calls' = calls \o <<Call("fetchStats", NoArgs), Call(FsQueries[1], NoArgs)>>
  /\ UNCHANGED <<dbvars, sessions, signup, toasts, location, logged>>

\* =================================================================== Signup
\* String.prototype.trim and toUpperCase on a text held as a sequence of
\* characters
RECURSIVE TrimStart(_)
TrimStart(t) == IF t # <<>> /\ Head(t) = " " THEN TrimStart(Tail(t)) ELSE t
RECURSIVE TrimEnd(_)
TrimEnd(t) == IF t # <<>> /\ t[Len(t)] = " " THEN TrimEnd(SubSeq(t, 1, Len(t) - 1)) ELSE t
Trim(t) == TrimEnd(TrimStart(t))
ToUpperCase(t) == [i \in DOMAIN t |-> IF t[i] = "a" THEN "A" ELSE t[i]]

\* mutant: the test on the referral code left out
HasReferralCode_always(code) == TRUE
\* referralCode && referralCode.trim(): a non-empty string is truthy
HasReferralCode(code) == code # <<>> /\ Trim(code) # <<>>

\* if (!agreedToTerms) { toast.error(...); return }  setLoading(true); signUp
handleSignup_submit ==
  /\ signup.pc = "form"
  /\ IF ~signup.agreedToTerms
     THEN /\ signup' = [signup EXCEPT !.pc = "done"]
          /\ toasts' = Append(toasts, Toast("error", "Please agree to the Terms & Conditions"))
          /\ UNCHANGED <<dbvars, sessions, dash, location, calls, logged>>
     ELSE /\ signup' = [signup EXCEPT !.pc = "signUp", !.loading = TRUE]
          /\ calls' = Append(calls, Call("auth.signUp", NoArgs))
          /\ UNCHANGED <<dbvars, sessions, dash, toasts, location, logged>>

\* catch (error) { toast.error(error.message || 'Signup failed') }
\* finally { setLoading(false) }
handleSignup_catch(fn, out) ==
  /\ signup' = [signup EXCEPT !.pc = "done", !.loading = FALSE]
  /\ calls' = Append(calls, Return(fn, out))
  /\ toasts' = Append(toasts, Toast("error", "Signup failed"))
  /\ UNCHANGED <<dbvars, sessions, dash, location, logged>>

\* toast.success(...); navigate('/login'); finally { setLoading(false) }
handleSignup_success(fn, out, log) ==
  /\ signup' = [signup EXCEPT !.pc = "done", !.loading = FALSE]
  /\ calls' = Append(calls, Return(fn, out))
  /\ toasts' = Append(toasts, Toast("success", "Account created successfully!"))
  /\ location' = "/login"
  /\ logged' = logged \o log
  /\ UNCHANGED <<dbvars, sessions, dash>>

\* mutant: "if (error) throw error" left out
handleSignup_signUp_no_throw(out) ==
  /\ signup.pc = "signUp"
  /\ IF out.status = "throw" THEN handleSignup_catch("auth.signUp", out)
     ELSE IF ~Truthy(out.data)
     THEN /\ signup' = [signup EXCEPT !.pc = "done", !.loading = FALSE]
          /\ calls' = Append(calls, Return("auth.signUp", out))
          /\ UNCHANGED <<dbvars, sessions, dash, toasts, location, logged>>
     ELSE /\ signup' = [signup EXCEPT !.pc = "profileUpdate", !.user = out.data]
          /\ calls' = calls \o <<Return("auth.signUp", out),
                                  Call("profiles.update", [user_id |-> out.data])>>
          /\ UNCHANGED <<dbvars, sessions, dash, toasts, location, logged>>

\* const { data, error } = await supabase.auth.signUp(...); if (error) throw
\* error; if (data.user) { await supabase.from('profiles').update(...) ... }
handleSignup_signUp(out) ==
  /\ signup.pc = "signUp"
  /\ IF out.status \in {"throw", "error"} THEN handleSignup_catch("auth.signUp", out)
     ELSE IF ~Truthy(out.data)
     THEN /\ signup' = [signup EXCEPT !.pc = "done", !.loading = FALSE]
          /\ calls' = Append(calls, Return("auth.signUp", out))
          /\ UNCHANGED <<dbvars, sessions, dash, toasts, location, logged>>
     ELSE /\ signup' = [signup EXCEPT !.pc = "profileUpdate", !.user = out.data]
          /\ calls' = calls \o <<Return("auth.signUp", out),
                                  Call("profiles.update", [user_id |-> out.data])>>
          /\ UNCHANGED <<dbvars, sessions, dash, toasts, location, logged>>

\* the awaited profile update settles; its result is not read
handleSignup_profileUpdate(out) ==
  /\ signup.pc = "profileUpdate"
  /\ IF out.status = "throw" THEN handleSignup_catch("profiles.update", out)
     ELSE IF HasReferralCode(signup.referralCode)
     THEN /\ signup' = [signup EXCEPT !.pc = "lookup"]
          /\ calls' = calls \o <<Return("profiles.update", out),
                                  Call("profiles.select",
                                       [referral_code |-> ToUpperCase(signup.referralCode)])>>
          /\ UNCHANGED <<dbvars, sessions, dash, toasts, location, logged>>
     ELSE handleSignup_success("profiles.update", out, <<>>)

\* const { data: referrer } = await ...maybeSingle(); if (referrer) insert;
\* catch (err) { console.error('Referral error:', err) }
handleSignup_lookup(out) ==
  /\ signup.pc = "lookup"
  /\ IF out.status = "throw" THEN handleSignup_success("profiles.select", out, <<"Referral error:">>)
     ELSE IF ~Truthy(out.data) THEN handleSignup_success("profiles.select", out, <<>>)
     ELSE /\ signup' = [signup EXCEPT !.pc = "insert", !.referrer = out.data]
          /\ calls' = calls \o <<Return("profiles.select", out),
                                  Call("referrals.insert",
                                       [referrer_id |-> out.data, referred_id |-> signup.user,
                                        bonus_amount |-> 50, bonus_paid |-> FALSE])>>
          /\ UNCHANGED <<dbvars, sessions, dash, toasts, location, logged>>

\* mutant: the referral block without its own try/catch
handleSignup_insert_rethrows(out) ==
  /\ signup.pc = "insert"
  /\ IF out.status = "throw" THEN handleSignup_catch("referrals.insert", out)
     ELSE handleSignup_success("referrals.insert", out, <<>>)

\* the awaited referral insert settles; its result is not read
handleSignup_insert(out) ==
  /\ signup.pc = "insert"
  /\ handleSignup_success("referrals.insert", out,
                          IF out.status = "throw" THEN <<"Referral error:">> ELSE <<>>)

\* =========================================================== admin sessions
\* an admin session on the Deposits or Withdrawals tab: it loads the list
\* (SELECT as the signed-in admin), keeps the status it read for one row, and
\* approves a row it read as pending with UPDATE ... SET status = 'approved'
\* WHERE id = <id>; the two statements are separate requests, with no
\* transaction around them and no test of the status in the UPDATE
SessionUser == "a1"

unchanged_by_deposit_session ==
  <<gen, users, kyc, waccounts, withdrawals, transactions, balances, activity_logs, admin_logs,
    uivars>>
unchanged_by_withdrawal_session ==
  <<gen, users, kyc, waccounts, deposits, transactions, balances, activity_logs, admin_logs,
    uivars>>

SessionRead(s, tbl, id) ==
  /\ sessions[s].pc = "idle"
  /\ \E r \in last'.rows :
       /\ r.id = id
       /\ sessions' = [sessions EXCEPT ![s] = [pc |-> "read", tbl |-> tbl, id |-> id,
                                               seen |-> r.status, affected |-> 0]]

SessionReadDeposits(s, id) ==
  /\ SelectDepositsStatement(SessionUser)
  /\ SessionRead(s, "deposits", id)
  /\ UNCHANGED unchanged_by_deposit_session

SessionReadWithdrawals(s, id) ==
  /\ SelectWithdrawalsStatement(SessionUser)
  /\ SessionRead(s, "withdrawals", id)
  /\ UNCHANGED unchanged_by_withdrawal_session

SessionApproveDeposit(s) ==
  /\ sessions[s].pc = "read" /\ sessions[s].tbl = "deposits" /\ sessions[s].seen = "pending"
  /\ UpdateDepositStatement(SessionUser, sessions[s].id, [status |-> "approved"])
  /\ sessions' = [sessions EXCEPT ![s].pc = "done", ![s].affected = Cardinality(last'.rows)]
  /\ UNCHANGED unchanged_by_deposit_session

SessionApproveWithdrawal(s) ==
  /\ sessions[s].pc = "read" /\ sessions[s].tbl = "withdrawals" /\ sessions[s].seen = "pending"
  /\ UpdateWithdrawalStatement(SessionUser, sessions[s].id, [status |-> "approved"])
  /\ sessions' = [sessions EXCEPT ![s].pc = "done", ![s].affected = Cardinality(last'.rows)]
  /\ UNCHANGED unchanged_by_withdrawal_session

\* ================================================ Spec: the RLS policies of
\* deposits, withdrawals and kyc, every caller against every owner's rows
RowsHeld == Cardinality(deposits) + Cardinality(withdrawals) + Cardinality(kyc)

RlsIds == 1..MaxRows
\* the owners named in the rows written
Owners == {"u1", "u2"}

RlsDepositInserts ==
  {[user_id |-> u, amount |-> Num(1)] : u \in Owners}
  \cup {[user_id |-> u, amount |-> Num(1), status |-> "approved"] : u \in Owners}

RlsWithdrawalInserts ==
  {[user_id |-> u, withdrawal_account_id |-> Num(1), amount |-> Num(1)] : u \in Owners}
  \cup {[user_id |-> u, withdrawal_account_id |-> Num(1), amount |-> Num(1),
         status |-> "approved"] : u \in Owners}

RlsKycInserts ==
  {[user_id |-> u] : u \in Owners} \cup {[user_id |-> u, status |-> "approved"] : u \in Owners}

RlsStatusSets == {[status |-> "pending"], [status |-> "approved"]}

Init == InitDb(InitAccounts)

Next ==
  \/ RowsHeld < MaxRows /\ \E c \in Callers, in \in RlsDepositInserts : InsertDeposit(c, in)
  \/ RowsHeld < MaxRows /\ \E c \in Callers, in \in RlsWithdrawalInserts : InsertWithdrawal(c, in)
  \/ RowsHeld < MaxRows /\ \E c \in Callers, in \in RlsKycInserts : InsertKyc(c, in)
  \/ \E c \in Callers, id \in RlsIds, set \in RlsStatusSets : UpdateDeposit(c, id, set)
  \/ \E c \in Callers, id \in RlsIds, set \in RlsStatusSets : UpdateWithdrawal(c, id, set)
  \/ \E c \in Callers, id \in RlsIds, set \in RlsStatusSets : UpdateKyc(c, id, set)
  \/ \E c \in Callers : SelectDeposits(c)
  \/ \E c \in Callers : SelectWithdrawals(c)
  \/ \E c \in Callers : SelectKyc(c)

Spec == Init /\ [][Next]_vars

\* ============================ SpecUsers: updates of the users/profiles rows
\* the columns an UPDATE of users/profiles sets
UserSets ==
  {[phone |-> "p1"], [role |-> "admin"], [kyc_status |-> "approved"],
   [account_status |-> "suspended"]}

\* the service session promotes or demotes u1
ServiceRoleSets == {[role |-> "admin"], [role |-> "user"]}

NextUsers ==
  \/ \E c \in UserIds, id \in UserIds, set \in UserSets : UpdateUser(c, id, set)
  \/ \E set \in ServiceRoleSets : UpdateUser(SERVICE, "u1", set)

InitUsersSpec == InitDb({})

SpecUsers == InitUsersSpec /\ [][NextUsers]_vars

\* ================ SpecMoney: the monetary columns of deposits, withdrawals,
\* transactions and account_balances
MoneyCallers == {"u1", "a1", SERVICE}
MoneyIds == 1..MaxTable
MoneyRowsHeld ==
  Cardinality(deposits) + Cardinality(withdrawals) + Cardinality(transactions)
  + Cardinality(balances)

MoneyDepositInserts == {[user_id |-> "u1", amount |-> Num(a)] : a \in {-1, 0, 1}}

MoneyWithdrawalInserts ==
  {[user_id |-> "u1", withdrawal_account_id |-> Num(1), amount |-> Num(a)] : a \in {-1, 0, 1}}
  \cup {[user_id |-> "u1", withdrawal_account_id |-> Num(1), amount |-> Num(1), fee |-> f] :
          f \in {NULLNUM, Num(-1), Num(2)}}
  \cup {[user_id |-> "u1", withdrawal_account_id |-> Num(1), amount |-> Num(1),
         net_amount |-> Num(5)]}

MoneyWithdrawalSets ==
  {[fee |-> f] : f \in {NULLNUM, Num(-1), Num(0), Num(2)}}
  \cup {[amount |-> Num(3)], [net_amount |-> Num(5)]}

MoneyTransactionInserts ==
  {[user_id |-> "u1", type |-> "deposit", amount |-> Num(a)] : a \in {-1, 1}}

MoneyBalanceInserts ==
  {[user_id |-> "u1"], [user_id |-> "u1", main_balance |-> Num(-1)]}

MoneyBalanceSets ==
  {[main_balance |-> Num(-1)], [main_balance |-> Num(5)], [total_withdrawn |-> Num(-1)]}

InitMoney == InitDb(InitAccounts)

NextMoney ==
  \/ MoneyRowsHeld < MaxTable
     /\ \E c \in MoneyCallers, in \in MoneyDepositInserts : InsertDeposit(c, in)
  \/ MoneyRowsHeld < MaxTable
     /\ \E c \in MoneyCallers, in \in MoneyWithdrawalInserts : InsertWithdrawal(c, in)
  \/ MoneyRowsHeld < MaxTable
     /\ \E c \in MoneyCallers, in \in MoneyTransactionInserts : InsertTransaction(c, in)
  \/ MoneyRowsHeld < MaxTable
     /\ \E c \in MoneyCallers, in \in MoneyBalanceInserts : InsertBalance(c, in)
  \/ \E c \in MoneyCallers, id \in MoneyIds, set \in MoneyWithdrawalSets :
       UpdateWithdrawal(c, id, set)
  \/ \E c \in MoneyCallers, id \in MoneyIds, set \in MoneyBalanceSets :
       UpdateBalance(c, id, set)

SpecMoney == InitMoney /\ [][NextMoney]_vars

\* ========================= SpecAccounts: the rows of withdrawal_accounts
MaxAccounts == 1
AccountCallers == {"u1", SERVICE}
AccountIds == 1..MaxAccounts

BankFields == [account_number |-> "n", account_holder_name |-> "h"]
CryptoFields == [crypto_address |-> "x", crypto_type |-> "bitcoin"]
PaypalFields == [paypal_email |-> "p"]
Drop(f, col) == [c \in DOMAIN f \ {col} |-> f[c]]

AccountInserts ==
  LET own(t) == [user_id |-> "u1", account_type |-> t]
  IN {own("bank") @@ BankFields, own("crypto") @@ CryptoFields, own("paypal") @@ PaypalFields}
     \cup {own("bank") @@ Drop(BankFields, col) : col \in DOMAIN BankFields}
     \cup {own("crypto") @@ Drop(CryptoFields, col) : col \in DOMAIN CryptoFields}
     \cup {own("paypal"), own("crypto") @@ BankFields, own("wire") @@ BankFields,
           [user_id |-> "u1"] @@ PaypalFields,
           own("crypto") @@ [crypto_address |-> "x", crypto_type |-> "doge"]}

AccountSets ==
  {[account_type |-> t] : t \in AccountTypeValues}
  \cup {BankFields, CryptoFields, PaypalFields}
  \cup {[account_number |-> NULL], [account_holder_name |-> NULL], [crypto_address |-> NULL],
        [crypto_type |-> NULL], [paypal_email |-> NULL]}

InitAccountsSpec == InitDb({})

NextAccounts ==
  \/ Cardinality(waccounts) < MaxAccounts
     /\ \E c \in AccountCallers, in \in AccountInserts : InsertAccount(c, in)
  \/ \E c \in AccountCallers, id \in AccountIds, set \in AccountSets : UpdateAccount(c, id, set)
  \/ \E c \in AccountCallers, id \in AccountIds : DeleteAccount(c, id)

SpecAccounts == InitAccountsSpec /\ [][NextAccounts]_vars

\* ===================================== SpecKyc: the rows of the KYC table
KycIds == 1..MaxTable

KycInserts ==
  {[user_id |-> u] : u \in Owners}
  \cup {[user_id |-> u, status |-> st] : u \in Owners, st \in {"approved", "rejected"}}

KycSets ==
  {[status |-> st] : st \in KycStatusValues} \cup {[user_id |-> u] : u \in Owners}

InitKyc == InitDb({})

NextKyc ==
  \/ Cardinality(kyc) < MaxTable /\ \E c \in Callers, in \in KycInserts : InsertKyc(c, in)
  \/ \E c \in Callers, id \in KycIds, set \in KycSets : UpdateKyc(c, id, set)
  \/ \E c \in Callers : SelectKyc(c)

SpecKyc == InitKyc /\ [][NextKyc]_vars

\* ============ SpecStatus: the status columns of deposits, withdrawals, kyc
StatusCallers == {"u1", "a1", SERVICE}
StatusIds == 1..MaxTable
StatusRowsHeld == Cardinality(deposits) + Cardinality(withdrawals) + Cardinality(kyc)

\* every declared value, NULL, and a value of another table's set
DepositStatusInputs == DepositStatusValues \cup {NULL, "processing"}
WithdrawalStatusInputs == WithdrawalStatusValues \cup {NULL, "under_review"}
KycStatusInputs == KycStatusValues \cup {NULL, "completed"}

StatusDepositInserts ==
  {[user_id |-> "u1", amount |-> Num(1)]}
  \cup {[user_id |-> "u1", amount |-> Num(1), status |-> st] : st \in DepositStatusInputs}

StatusWithdrawalInserts ==
  {[user_id |-> "u1", withdrawal_account_id |-> Num(1), amount |-> Num(1)]}
  \cup {[user_id |-> "u1", withdrawal_account_id |-> Num(1), amount |-> Num(1),
         status |-> st] : st \in WithdrawalStatusInputs}

StatusKycInserts ==
  {[user_id |-> "u1"]} \cup {[user_id |-> "u1", status |-> st] : st \in KycStatusInputs}

InitStatus == InitDb(InitAccounts)

NextStatus ==
  \/ StatusRowsHeld < MaxTable
     /\ \E c \in StatusCallers, in \in StatusDepositInserts : InsertDeposit(c, in)
  \/ StatusRowsHeld < MaxTable
     /\ \E c \in StatusCallers, in \in StatusWithdrawalInserts : InsertWithdrawal(c, in)
  \/ StatusRowsHeld < MaxTable
     /\ \E c \in StatusCallers, in \in StatusKycInserts : InsertKyc(c, in)
  \/ \E c \in StatusCallers, id \in StatusIds, st \in DepositStatusInputs :
       UpdateDeposit(c, id, [status |-> st])
  \/ \E c \in StatusCallers, id \in StatusIds, st \in WithdrawalStatusInputs :
       UpdateWithdrawal(c, id, [status |-> st])
  \/ \E c \in StatusCallers, id \in StatusIds, st \in KycStatusInputs :
       UpdateKyc(c, id, [status |-> st])

SpecStatus == InitStatus /\ [][NextStatus]_vars

\* ================== SpecSummary: reads of admin_dashboard_summary between
\* writes of deposits
SummaryIds == 1..MaxTable

SummaryDepositInserts ==
  {[user_id |-> u, amount |-> Num(1)] : u \in Owners}
  \cup {[user_id |-> "u1", amount |-> Num(2), status |-> "completed"]}

SummaryStatusSets == {[status |-> st] : st \in {"pending", "under_review", "completed"}}

InitSummary == InitDb(InitAccounts)

NextSummary ==
  \/ Cardinality(deposits) < MaxTable
       /\ \E c \in {"u1", "u2", SERVICE}, in \in SummaryDepositInserts : InsertDeposit(c, in)
  \/ \E id \in SummaryIds, set \in SummaryStatusSets : UpdateDeposit("a1", id, set)
  \/ \E c \in Callers : SelectSummary(c)

SpecSummary == InitSummary /\ [][NextSummary]_vars

\* ======================= SpecAdminPage: one load of the AdminDashboard page
\* what auth.getUser, has_role and auth.signOut can settle with
GetUserOutcomes == {Outcome("ok", u) : u \in {"u1", "a1", NULL}} \cup Failed
HasRoleOutcomes == {Outcome("ok", d) : d \in {"true", "false", NULL}} \cup Failed
SignOutOutcomes == {Outcome("ok", NULL)} \cup Failed
\* a count or a sum: null data with an error, a number, or a rejection
QueryOutcomes ==
  {Outcome("ok", Num(0)), Outcome("ok", Num(2)), Outcome("error", NULLNUM),
   Outcome("throw", NULLNUM)}

InitAdminPage == InitDb({}) /\ gen = 2

NextAdminPage ==
  \/ Mount
  \/ \E out \in GetUserOutcomes : checkAdminAccess_getUser(out)
  \/ \E out \in HasRoleOutcomes : checkAdminAccess_has_role(out)
  \/ \E out \in SignOutOutcomes : checkAdminAccess_signOut(out)
  \/ \E out \in QueryOutcomes : fetchStats_query(1, out)

SpecAdminPage == InitAdminPage /\ [][NextAdminPage]_vars

\* ... where the effect runs after the first render and every awaited call
\* settles, so a handler that can take a step takes it
SpecAdminPageLive == SpecAdminPage /\ WF_vars(NextAdminPage)

\* ============================== SpecSignup: one submission of the Signup form
\* the referral code typed: none, blanks only, a code, a code between blanks
ReferralCodes == {<<>>, <<" ">>, <<" ", " ">>, <<"a">>, <<"A">>, <<" ", "a", " ">>}

SignUpOutcomes == {Outcome("ok", u) : u \in {"n1", NULL}} \cup Failed
WriteOutcomes == {Outcome("ok", NULL)} \cup Failed
LookupOutcomes == {Outcome("ok", r) : r \in {"u1", "u2", NULL}} \cup Failed

InitSignupPage ==
  /\ InitTables({}) /\ gen = 2
  /\ \E agreed \in BOOLEAN, code \in ReferralCodes : InitPages(agreed, code)

NextSignup ==
  \/ handleSignup_submit
  \/ \E out \in SignUpOutcomes : handleSignup_signUp(out)
  \/ \E out \in WriteOutcomes : handleSignup_profileUpdate(out)
  \/ \E out \in LookupOutcomes : handleSignup_lookup(out)
  \/ \E out \in WriteOutcomes : handleSignup_insert(out)

SpecSignup == InitSignupPage /\ [][NextSignup]_vars

\* ========= SpecLogs: statements on activity_logs, admin_logs and transactions
LogCallers == {"u1", "a1", SERVICE}
LogIds == 1..MaxTable
LogRowsHeld == Cardinality(activity_logs) + Cardinality(admin_logs) + Cardinality(transactions)

ActivityLogInserts == {[user_id |-> u, action |-> "login"] : u \in {"u1", "a1"}}
ActivityLogSets == {[action |-> "edited"]}
AdminLogInserts == {[admin_id |-> "a1", action |-> "approve"]}
AdminLogSets == {[action |-> "edited"]}
LogTransactionInserts == {[user_id |-> u, type |-> "fee", amount |-> Num(1)] : u \in {"u1", "a1"}}
LogTransactionSets == {[amount |-> Num(2)]}

InitLogs == InitDb({})

NextLogs ==
  \/ LogRowsHeld < MaxTable
       /\ \E c \in LogCallers, in \in ActivityLogInserts : InsertActivityLog(c, in)
  \/ LogRowsHeld < MaxTable
       /\ \E c \in LogCallers, in \in AdminLogInserts : InsertAdminLog(c, in)
  \/ LogRowsHeld < MaxTable
       /\ \E c \in LogCallers, in \in LogTransactionInserts : InsertTransaction(c, in)
  \/ \E c \in LogCallers, id \in LogIds, set \in ActivityLogSets : UpdateActivityLog(c, id, set)
  \/ \E c \in LogCallers, id \in LogIds, set \in AdminLogSets : UpdateAdminLog(c, id, set)
  \/ \E c \in LogCallers, id \in LogIds, set \in LogTransactionSets : UpdateTransaction(c, id, set)
  \/ \E c \in LogCallers, id \in LogIds : DeleteActivityLog(c, id)
  \/ \E c \in LogCallers, id \in LogIds : DeleteAdminLog(c, id)
  \/ \E c \in LogCallers, id \in LogIds : DeleteTransaction(c, id)

SpecLogs == InitLogs /\ [][NextLogs]_vars

\* ======== SpecLedger: transactions inserted next to deposits being reviewed
LedgerIds == 1..MaxTable

LedgerDepositInserts == {[user_id |-> u, amount |-> Num(1)] : u \in Owners}
LedgerStatusSets == {[status |-> "approved"], [status |-> "rejected"]}
LedgerTransactionInserts ==
  {[user_id |-> u, type |-> "deposit", amount |-> Num(1), deposit_id |-> d] :
     u \in {"u1", "a1"}, d \in {NULLNUM} \cup {Num(i) : i \in LedgerIds}}
  \cup {[user_id |-> "u1", type |-> "withdrawal", amount |-> Num(1)]}

InitLedger == InitDb(InitAccounts)

LedgerRowsHeld == Cardinality(deposits) + Cardinality(transactions)

NextLedger ==
  \/ LedgerRowsHeld < MaxTable
       /\ \E c \in Owners, in \in LedgerDepositInserts : InsertDeposit(c, in)
  \/ \E id \in LedgerIds, set \in LedgerStatusSets : UpdateDeposit("a1", id, set)
  \/ LedgerRowsHeld < MaxTable
       /\ \E c \in {"u1", "a1"}, in \in LedgerTransactionInserts : InsertTransaction(c, in)

SpecLedger == InitLedger /\ [][NextLedger]_vars

\* ===== SpecOwner: every authenticated caller against every owner's accounts
OwnerCallers == {"u1", "u2", "a1"}
OwnerIds == 1..(Cardinality(InitAccounts) + MaxAccounts)

OwnerInserts ==
  {[user_id |-> u, account_type |-> "paypal", paypal_email |-> "p"] : u \in Owners}
OwnerSets == {[paypal_email |-> "q"]} \cup {[user_id |-> u] : u \in Owners}

InitOwner == InitDb(InitAccounts)

NextOwner ==
  \/ Cardinality(waccounts) < Cardinality(InitAccounts) + MaxAccounts
       /\ \E c \in OwnerCallers, in \in OwnerInserts : InsertAccount(c, in)
  \/ \E c \in OwnerCallers, id \in OwnerIds, set \in OwnerSets : UpdateAccount(c, id, set)
  \/ \E c \in OwnerCallers, id \in OwnerIds : DeleteAccount(c, id)

SpecOwner == InitOwner /\ [][NextOwner]_vars

\* ==== SpecApprovals: two admin sessions approving the same pending requests
ApprovalIds == 1..MaxTable
ApprovalRowsHeld == Cardinality(deposits) + Cardinality(withdrawals)
\* the owner files the request; in the profiles-based schema, which has no
\* INSERT policy on either table, a server-side session does
ApprovalCallers == {"u1", SERVICE}
ApprovalDepositInserts == {[user_id |-> "u1", amount |-> Num(1)]}
ApprovalWithdrawalInserts ==
  {[user_id |-> "u1", withdrawal_account_id |-> Num(1), amount |-> Num(1)]}

InitApprovals == InitDb(InitAccounts)

NextApprovals ==
  \/ ApprovalRowsHeld < MaxTable
       /\ \E c \in ApprovalCallers, in \in ApprovalDepositInserts : InsertDeposit(c, in)
  \/ ApprovalRowsHeld < MaxTable
       /\ \E c \in ApprovalCallers, in \in ApprovalWithdrawalInserts : InsertWithdrawal(c, in)
  \/ \E s \in AdminSessions, id \in ApprovalIds : SessionReadDeposits(s, id)
  \/ \E s \in AdminSessions, id \in ApprovalIds : SessionReadWithdrawals(s, id)
  \/ \E s \in AdminSessions : SessionApproveDeposit(s)
  \/ \E s \in AdminSessions : SessionApproveWithdrawal(s)

SpecApprovals == InitApprovals /\ [][NextApprovals]_vars

\* ====== SpecRefresh: an admin's page load followed by a tab's onUpdate, the
\* two invocations of fetchStats waiting for their queries at the same time
\* what a query of invocation k settles with: the rows counted for the
\* second invocation are not those counted for the first
RefreshOutcomes(k) == {Outcome("ok", Num(k)), Outcome("throw", NULLNUM)}

InitRefresh == InitDb({}) /\ gen = 2

NextRefresh ==
  \/ Mount
  \/ checkAdminAccess_getUser(Outcome("ok", "a1"))
  \/ checkAdminAccess_has_role(Outcome("ok", "true"))
  \/ onUpdate
  \/ \E k \in FetchIds : \E out \in RefreshOutcomes(k) : fetchStats_query(k, out)

SpecRefresh == InitRefresh /\ [][NextRefresh]_vars

\* =================================================================== claims
\* the caller is an authenticated identity whose users/profiles row has a
\* role other than admin / the role admin
NonAdmin(c) == c \in UserIds /\ users[c].role # "admin"
Admin(c) == c \in UserIds /\ users[c].role = "admin"

RequestTables == {"deposits", "withdrawals", "kyc"}
ConstraintErrors == {"not_null", "check", "unique", "fk", "generated", "undefined_table"}

\* a numeric value that is not below zero (NULL is not a negative number)
NonNegative(v) == v = NULLNUM \/ v[1] >= 0

\* the fields the row's account_type requires are populated
FieldsMatchType(r) ==
  \/ r.account_type = "bank" /\ r.account_number # NULL /\ r.account_holder_name # NULL
  \/ r.account_type = "crypto" /\ r.crypto_address # NULL /\ r.crypto_type # NULL
  \/ r.account_type = "paypal" /\ r.paypal_email # NULL

\* the backend call fn was issued / has settled
Issued(fn) == \E i \in DOMAIN calls : calls[i].ev = "call" /\ calls[i].fn = fn
Settled(fn) == \E i \in DOMAIN calls : calls[i].ev = "return" /\ calls[i].fn = fn
\* ... settled with the given status
SettledAs(fn, status) ==
  \E i \in DOMAIN calls :
    calls[i].ev = "return" /\ calls[i].fn = fn /\ calls[i].val.status = status

\* has_role answered, and its answer was false or null
HasRoleDenied ==
  \E i \in DOMAIN calls :
    /\ calls[i].ev = "return" /\ calls[i].fn = "has_role"
    /\ calls[i].val.status # "throw" /\ ~Truthy(calls[i].val.data)

\* the backend functions in the order their calls were issued
CallOrder ==
  LET IsCall(e) == e.ev = "call"
      issued == SelectSeq(calls, IsCall)
  IN [i \in DOMAIN issued |-> issued[i].fn]

SignupOrder == <<"auth.signUp", "profiles.update", "profiles.select", "referrals.insert">>

\* a call is issued only when every earlier call has settled
OneCallAtATime ==
  \A i \in DOMAIN calls :
    /\ (calls[i].ev = "call" /\ i > 1) => calls[i - 1].ev = "return"
    /\ calls[i].ev = "return" => (i > 1 /\ calls[i - 1].ev = "call" /\ calls[i - 1].fn = calls[i].fn)

\* auth.signUp returned no error and a user
SignedUp ==
  \E i \in DOMAIN calls :
    /\ calls[i].ev = "return" /\ calls[i].fn = "auth.signUp"
    /\ calls[i].val.status = "ok" /\ calls[i].val.data # NULL

SuccessToast == Toast("success", "Account created successfully!")
ErrorToasts == {i \in DOMAIN toasts : toasts[i].kind = "error"}

\* the text is empty or holds blanks only
Blank(code) == \A i \in DOMAIN code : code[i] = " "

\* C1: a SELECT on deposits, withdrawals or the KYC table by a caller whose
\* role is not admin returns no row whose user_id differs from the caller's
\* identity.
C1_NonAdminSelectsOwnRowsOnly ==
  (last.op = "select" /\ last.tbl \in RequestTables /\ NonAdmin(last.caller))
    => \A r \in last.rows : r.user_id = last.caller

\* u1 selects from deposits while u2 holds a deposit: u1 gets its own row only
C1_Witness ==
  /\ last.op = "select" /\ last.tbl = "deposits" /\ last.caller = "u1"
  /\ \E r \in deposits : r.user_id = "u2"
  /\ \E r \in last.rows : r.user_id = "u1"

\* C2 (as claimed): an admin's SELECT returns every row of deposits,
\* withdrawals and the KYC table, and an admin's UPDATE of any such row, when
\* no constraint refuses the new row, is accepted, in both generations.
C2_AdminReadsAndUpdatesAnyRow ==
  (last.tbl \in RequestTables /\ Admin(last.caller)) =>
    /\ last.op = "select" =>
         last.rows = (CASE last.tbl = "deposits" -> deposits
                        [] last.tbl = "withdrawals" -> withdrawals
                        [] OTHER -> kyc)
    /\ (last.op = "update" /\ last.err \notin ConstraintErrors) =>
         (last.err = "none" /\ last.rows = {last.row})

\* C3: an INSERT into deposits or withdrawals by a non-admin caller whose row
\* has a status other than pending or a user_id other than the caller's is
\* rejected and leaves both tables unchanged; a row a non-admin caller does
\* insert is pending and owned by the caller.
C3_NonAdminInsertsPendingOwnRows ==
  [][ (last'.op = "insert" /\ last'.tbl \in {"deposits", "withdrawals"}
       /\ NonAdmin(last'.caller)) =>
        /\ (last'.row.status # "pending" \/ last'.row.user_id # last'.caller) =>
             (last'.err # "none" /\ last'.rows = {}
              /\ deposits' = deposits /\ withdrawals' = withdrawals)
        /\ \A r \in (deposits' \ deposits) \cup (withdrawals' \ withdrawals) :
             r.status = "pending" /\ r.user_id = last'.caller ]_vars

\* u1 inserted a deposit of its own with status approved and was refused
C3_Witness ==
  /\ last.op = "insert" /\ last.tbl = "deposits" /\ last.caller = "u1"
  /\ last.row.user_id = "u1" /\ last.row.status = "approved"
  /\ last.err = "rls" /\ gen = 1

\* C4: an UPDATE of a deposits or withdrawals row by a non-admin caller, the
\* row's owner included, writes nothing; a row's status changes only in a
\* statement of an admin (or of a session that is not subject to RLS).
C4_OnlyAdminUpdatesRequests ==
  [][ /\ (last'.op = "update" /\ last'.tbl \in {"deposits", "withdrawals"}
          /\ NonAdmin(last'.caller)) =>
           (last'.rows = {} /\ deposits' = deposits /\ withdrawals' = withdrawals)
      /\ \A r \in deposits \cup withdrawals :
           \A q \in deposits' \cup withdrawals' :
             (r.id = q.id /\ r.user_id = q.user_id /\ DOMAIN r = DOMAIN q
              /\ r.status # q.status) =>
               (Admin(last'.caller) \/ BypassRls(last'.caller)) ]_vars

\* the owner u1 tried to update its own pending deposit and nothing was written
C4_Witness ==
  /\ last.op = "update" /\ last.tbl = "deposits" /\ last.caller = "u1"
  /\ last.old.user_id = "u1" /\ last.row.status = "approved" /\ last.rows = {}
  /\ gen = 1 /\ \E r \in deposits : r.id = last.old.id /\ r.status = "pending"

\* C5 (as claimed): an UPDATE of users/profiles issued by a non-admin caller
\* leaves role, kyc_status and account_status of every row as they were.
C5_NonAdminKeepsRoleAndStatus ==
  [][ (last'.op = "update" /\ last'.tbl = "users" /\ NonAdmin(last'.caller)) =>
        \A u \in UserIds :
          /\ users'[u].role = users[u].role
          /\ users'[u].kyc_status = users[u].kyc_status
          /\ users'[u].account_status = users[u].account_status ]_vars

\* C6: in every withdrawals row net_amount is amount - fee (NULL when fee is
\* NULL), after the insert and after every update of fee or amount, and a
\* statement that gives net_amount a value is refused and writes nothing.
C6_NetAmountIsAmountMinusFee ==
  [][ /\ \A w \in withdrawals' :
           w.net_amount = (IF w.fee = NULLNUM THEN NULLNUM ELSE Num(w.amount[1] - w.fee[1]))
      /\ (last'.tbl = "withdrawals" /\ last'.err = "generated") =>
           (last'.rows = {} /\ withdrawals' = withdrawals) ]_vars

\* the fee of a stored withdrawal was updated to 2 and net_amount followed
C6_Witness ==
  /\ last.op = "update" /\ last.tbl = "withdrawals" /\ last.rows # {}
  /\ last.old.fee = Num(0) /\ last.old.net_amount = Num(1)
  /\ \E w \in withdrawals : w.id = last.old.id /\ w.fee = Num(2) /\ w.net_amount = Num(-1)

\* C7 (as claimed): every monetary column of every row is non-negative (a
\* NULL is not counted as negative).
C7_MonetaryColumnsNonNegative ==
  /\ \A d \in deposits : NonNegative(d.amount)
  /\ \A w \in withdrawals :
       NonNegative(w.amount) /\ NonNegative(w.fee) /\ NonNegative(w.net_amount)
  /\ \A t \in transactions : NonNegative(t.amount)
  /\ \A b \in balances :
       /\ NonNegative(b.main_balance) /\ NonNegative(b.profit_balance)
       /\ NonNegative(b.total_deposited) /\ NonNegative(b.total_withdrawn)

\* C8: an INSERT or UPDATE of withdrawal_accounts whose row does not hold the
\* fields its account_type requires is rejected and leaves the table
\* unchanged, so every stored row's populated fields match its type.
C8_AccountFieldsMatchType ==
  [][ /\ (last'.tbl = "withdrawal_accounts" /\ last'.op \in {"insert", "update"}
          /\ ~FieldsMatchType(last'.row)) =>
           (last'.rows = {} /\ last'.row \notin waccounts' /\ waccounts' = waccounts)
      /\ \A a \in waccounts' : FieldsMatchType(a) ]_vars

\* the owner of a stored crypto account tried to null its crypto_address: the
\* CHECK refused the update and the row kept its address
C8_Witness ==
  /\ last.op = "update" /\ last.tbl = "withdrawal_accounts" /\ last.caller = "u1"
  /\ last.old.account_type = "crypto" /\ last.old.crypto_address # NULL
  /\ last.row.crypto_address = NULL /\ last.err = "check"
  /\ last.old \in waccounts

\* C9: the KYC table holds at most one row per user_id; an INSERT for a user
\* that already has a row, whatever that row's status, is rejected and leaves
\* the table unchanged.
C9_OneKycRowPerUser ==
  [][ /\ (last'.op = "insert" /\ last'.tbl = "kyc"
          /\ \E r \in kyc : r.user_id = last'.row.user_id) =>
           (last'.err # "none" /\ last'.rows = {} /\ kyc' = kyc)
      /\ \A r, q \in kyc' : r.user_id = q.user_id => r = q ]_vars

\* u1, whose KYC row is rejected, inserted a second one and met the UNIQUE
\* constraint
C9_Witness ==
  /\ last.op = "insert" /\ last.tbl = "kyc" /\ last.caller = "u1" /\ last.err = "unique"
  /\ \E r \in kyc : r.user_id = "u1" /\ r.status = "rejected" /\ last.row.user_id = "u1"

\* C10 (as claimed): the status of every deposits, withdrawals and KYC row is
\* one of the values the column declares (NULL is none of them), in both
\* generations.
C10_StatusInDeclaredSet ==
  /\ \A d \in deposits : d.status \in DepositStatusValues
  /\ \A w \in withdrawals : w.status \in WithdrawalStatusValues
  /\ \A k \in kyc : k.status \in KycStatusValues

\* C11: every read of admin_dashboard_summary returns one row whose
\* pending_deposits is the number of deposits rows with status pending in the
\* table as it is at that read (0 for the empty table), whoever reads it and
\* whatever was written since the previous read.
C11_PendingDepositsCountedAtRead ==
  [][ (last'.op = "select" /\ last'.tbl = "admin_dashboard_summary" /\ last'.err = "none") =>
        /\ deposits' = deposits
        /\ Cardinality(last'.rows) = 1
        /\ \A r \in last'.rows :
             r.pending_deposits = Cardinality({d \in deposits' : d.status = "pending"}) ]_vars

\* u1 reads the view while the only pending deposit is u2's and another
\* deposit is no longer pending: the count is 1
C11_Witness ==
  /\ last.op = "select" /\ last.tbl = "admin_dashboard_summary" /\ last.caller = "u1"
  /\ \E r \in last.rows : r.pending_deposits = 1
  /\ \E d \in deposits : d.status = "pending" /\ d.user_id = "u2"
  /\ \E d \in deposits : d.status = "under_review"

\* C12: once has_role has answered false or null on the load of the admin
\* dashboard, auth.signOut is issued, the page is at /admin/login only after
\* auth.signOut has settled and is there when checkAdminAccess is done,
\* isAdmin is never true and fetchStats is never invoked.
C12_NonAdminSignedOutThenRedirected ==
  HasRoleDenied =>
    /\ Issued("auth.signOut")
    /\ location = "/admin/login" => Settled("auth.signOut")
    /\ dash.pc = "done" => (location = "/admin/login" /\ Settled("auth.signOut"))
    /\ ~dash.isAdmin
    /\ dash.fs = <<>> /\ ~Issued("fetchStats")

\* has_role answered false, the sign-out went through and the page is at
\* /admin/login with the Unauthorized toast shown
C12_Witness ==
  /\ HasRoleDenied /\ dash.roleData = "false" /\ dash.pc = "done"
  /\ SettledAs("auth.signOut", "ok") /\ location = "/admin/login"
  /\ toasts = <<Toast("error", "Unauthorized: Admin access required")>>

\* C13: handleSignup issues its backend calls in the order auth.signUp,
\* profile update, referral lookup, referral insert, each only after the
\* previous one has settled; the profile update and the referral calls are
\* issued only after auth.signUp returned no error and a user; when
\* auth.signUp returns an error none of them is issued, an error toast is
\* shown and the page does not go to /login.
C13_SignupCallsInOrder ==
  /\ OneCallAtATime
  /\ \E n \in 0..Len(SignupOrder) : CallOrder = SubSeq(SignupOrder, 1, n)
  /\ (Issued("profiles.update") \/ Issued("profiles.select") \/ Issued("referrals.insert"))
       => SignedUp
  /\ SettledAs("auth.signUp", "error") =>
       /\ CallOrder = <<"auth.signUp">>
       /\ ErrorToasts # {} /\ location # "/login"

\* all four calls were issued, one after the other, and the handler is done
C13_Witness ==
  /\ CallOrder = SignupOrder /\ signup.pc = "done" /\ Len(calls) = 2 * Len(SignupOrder)

\* C14: once the referral lookup or the referral insert has failed (returned
\* an error or thrown), the handler is done with the success toast as the
\* only toast shown and the page at /login, and no backend call was issued
\* after the failure (the profile update stands).
C14_ReferralFailureSwallowed ==
  \A i \in DOMAIN calls :
    (calls[i].ev = "return" /\ calls[i].fn \in {"profiles.select", "referrals.insert"}
     /\ calls[i].val.status \in {"error", "throw"}) =>
      /\ signup.pc = "done" /\ ~signup.loading
      /\ toasts = <<SuccessToast>> /\ location = "/login"
      /\ i = Len(calls) /\ Settled("profiles.update")

\* the referral insert threw: it was logged and the signup was reported as a
\* success
C14_Witness ==
  /\ SettledAs("referrals.insert", "throw") /\ logged = <<"Referral error:">>
  /\ toasts = <<SuccessToast>> /\ location = "/login"

\* C15: with an empty or blank referral code neither the referrer lookup nor
\* the referral insert is issued; otherwise at most one insert is issued,
\* only after the lookup returned a referrer, and it carries that referrer,
\* the user auth.signUp created and bonus_paid = false.
C15_ReferralOnlyWithCode ==
  /\ Blank(signup.referralCode) =>
       (~Issued("profiles.select") /\ ~Issued("referrals.insert"))
  /\ \A i, j \in DOMAIN calls :
       (calls[i].ev = "call" /\ calls[i].fn = "referrals.insert"
        /\ calls[j].ev = "call" /\ calls[j].fn = "referrals.insert") => i = j
  /\ \A i \in DOMAIN calls :
       (calls[i].ev = "call" /\ calls[i].fn = "referrals.insert") =>
         /\ i > 1 /\ calls[i - 1].fn = "profiles.select" /\ calls[i - 1].val.status = "ok"
         /\ calls[i - 1].val.data # NULL
         /\ calls[i].val.referrer_id = calls[i - 1].val.data
         /\ \E k \in DOMAIN calls :
              /\ calls[k].ev = "return" /\ calls[k].fn = "auth.signUp"
              /\ calls[i].val.referred_id = calls[k].val.data
         /\ calls[i].val.referred_id # NULL
         /\ calls[i].val.bonus_paid = FALSE

\* a code typed between blanks: the lookup found u2 and the insert was issued
C15_Witness ==
  /\ signup.referralCode = <<" ", "a", " ">> /\ Issued("referrals.insert")
  /\ signup.referrer = "u2" /\ signup.pc = "done"

\* C16 (as claimed): once auth.signUp has returned a user, a profile update
\* that returns an error or throws is followed by the referral lookup when a
\* code was typed, and the handler ends with the success toast and the page
\* at /login.
C16_ProfileUpdateBestEffort ==
  (SettledAs("profiles.update", "error") \/ SettledAs("profiles.update", "throw")) =>
    /\ ~Blank(signup.referralCode) => Issued("profiles.select")
    /\ signup.pc = "done" => (SuccessToast \in {toasts[i] : i \in DOMAIN toasts}
                              /\ location = "/login")

\* C17 (as claimed): every failure of auth.signUp, auth.getUser, has_role or
\* a fetchStats query that the handler catches has put an error toast on the
\* screen.
C17_CaughtFailuresToasted ==
  \A i \in DOMAIN calls :
    (/\ calls[i].ev = "return"
     /\ calls[i].fn \in {"auth.signUp", "auth.getUser", "has_role"} \cup FsQuerySet
     /\ (calls[i].val.status = "throw"
         \/ (calls[i].fn = "auth.signUp" /\ calls[i].val.status = "error"))) =>
      ErrorToasts # {}

\* C18: a statement issued by an authenticated caller (user or admin) removes
\* or changes no row of activity_logs, admin_logs or transactions: every row
\* held before the statement is held, unchanged, after it, and an UPDATE or
\* DELETE on these tables affects no row.
C18_LogsAppendOnly ==
  [][ last'.caller \in UserIds =>
        /\ activity_logs \subseteq activity_logs'
        /\ admin_logs \subseteq admin_logs'
        /\ transactions \subseteq transactions'
        /\ (last'.tbl \in {"activity_logs", "admin_logs", "transactions"}
            /\ last'.op \in {"update", "delete"}) => last'.rows = {} ]_vars

\* u1 tried to delete its own activity log and the row is still there
C18_Witness ==
  /\ last.op = "delete" /\ last.tbl = "activity_logs" /\ last.caller = "u1"
  /\ last.old.user_id = "u1" /\ last.old \in activity_logs /\ last.rows = {}

\* C19 (as claimed): a transactions row of type deposit (withdrawal) that an
\* authenticated caller inserts names, through deposit_id (withdrawal_id), a
\* deposit (withdrawal) of the same user that is approved or completed at the
\* time of the insert.
C19_TransactionsFollowApprovals ==
  [][ \A t \in transactions' \ transactions :
        last'.caller \in UserIds =>
          /\ t.type = "deposit" =>
               \E d \in deposits :
                 /\ Num(d.id) = t.deposit_id /\ d.user_id = t.user_id
                 /\ d.status \in {"approved", "completed"}
          /\ t.type = "withdrawal" =>
               \E w \in withdrawals :
                 /\ Num(w.id) = t.withdrawal_id /\ w.user_id = t.user_id
                 /\ w.status \in {"approved", "completed"} ]_vars

\* C20: an INSERT, UPDATE or DELETE on withdrawal_accounts by an authenticated
\* caller, admin included, whose row belongs (before or after the statement)
\* to somebody else writes nothing; every row such a caller adds, changes or
\* removes is its own before and after, so an owner cannot hand a row to
\* another user_id.
C20_AccountsWrittenByOwnerOnly ==
  [][ (last'.tbl = "withdrawal_accounts" /\ last'.caller \in UserIds) =>
        /\ (last'.op = "insert" /\ last'.row.user_id # last'.caller) =>
             (last'.rows = {} /\ waccounts' = waccounts)
        /\ (last'.op = "update"
            /\ (last'.old.user_id # last'.caller \/ last'.row.user_id # last'.caller)) =>
             (last'.rows = {} /\ waccounts' = waccounts)
        /\ (last'.op = "delete" /\ last'.old.user_id # last'.caller) =>
             (last'.rows = {} /\ waccounts' = waccounts)
        /\ \A a \in (waccounts' \ waccounts) \cup (waccounts \ waccounts') :
             a.user_id = last'.caller ]_vars

\* the admin a1 tried to delete u1's account, which it can read, and the
\* row is still there
C20_Witness ==
  /\ last.op = "delete" /\ last.tbl = "withdrawal_accounts" /\ last.caller = "a1"
  /\ gen = 1 /\ last.old.user_id = "u1" /\ AccountsSelect("a1", last.old)
  /\ last.rows = {} /\ last.old \in waccounts

\* C21 (as claimed): an INSERT of a KYC row (kyc_verifications or
\* kyc_documents) by a non-admin caller whose status is not pending is
\* rejected and leaves the table unchanged, and every row such a caller
\* inserts has status pending.
C21_KycStartsPending ==
  [][ (last'.op = "insert" /\ last'.tbl = "kyc" /\ NonAdmin(last'.caller)) =>
        /\ last'.row.status # "pending" => (last'.err # "none" /\ kyc' = kyc)
        /\ \A r \in kyc' \ kyc : r.status = "pending" ]_vars

\* the values the status column of the table declares
DeclaredStatus(tbl) ==
  CASE tbl = "deposits" -> DepositStatusValues
    [] tbl = "withdrawals" -> WithdrawalStatusValues
    [] OTHER -> KycStatusValues

\* the rows of the table a statement addressed
TableOf(tbl) ==
  CASE tbl = "deposits" -> deposits
    [] tbl = "withdrawals" -> withdrawals
    [] OTHER -> kyc

\* C22 (as claimed): an admin's UPDATE of a deposits, withdrawals or KYC row
\* from any declared status to any declared status is accepted and stored,
\* whatever the two statuses are (pending straight to approved or completed,
\* approved, rejected or completed back to pending).
C22_AdminSetsAnyStatus ==
  (/\ last.op = "update" /\ last.tbl \in RequestTables /\ Admin(last.caller)
   /\ last.old.status \in DeclaredStatus(last.tbl)
   /\ last.row.status \in DeclaredStatus(last.tbl)) =>
    (last.err = "none" /\ last.rows = {last.row} /\ last.row \in TableOf(last.tbl))

\* C23 (as claimed): when two admin sessions have both read the same deposit
\* or withdrawal as pending and each has issued its UPDATE to approved, both
\* updates were accepted (each affected the row), whichever came first, and
\* the row is approved.
C23_BothApprovalsAccepted ==
  \A s, t \in AdminSessions :
    (/\ s # t /\ sessions[s].pc = "done" /\ sessions[t].pc = "done"
     /\ sessions[s].tbl = sessions[t].tbl /\ sessions[s].id = sessions[t].id) =>
      /\ sessions[s].affected = 1 /\ sessions[t].affected = 1
      /\ \E r \in TableOf(sessions[s].tbl) : r.id = sessions[s].id /\ r.status = "approved"

\* the field of stats a query of fetchStats feeds
StatOf(q) ==
  CASE q = "userCount" -> "totalUsers"
    [] q = "depositCount" -> "totalDeposits"
    [] q = "investments" -> "totalInvested"
    [] OTHER -> q

\* C24 (as claimed): once fetchStats has ended, with or without a failed
\* query, every tile whose own query returned a result shows that result.
C24_TilesIndependent ==
  \A k \in DOMAIN dash.fs :
    dash.fs[k].pc \in {"done", "failed"} =>
      \A q \in FsQuerySet :
        dash.fs[k].counts[q] # NULLNUM =>
          dash.stats[StatOf(q)] = dash.fs[k].counts[q][1]

\* the identities whose users/profiles row has the role admin
Admins(table) == {u \in DOMAIN table : table[u].role = "admin"}

\* C25: an UPDATE of users/profiles issued by a non-admin caller leaves the
\* set of admin identities as it was: on the caller's own row a new role
\* that differs from the stored one is refused and nothing is written, and on
\* another user's row nothing is written at all.
C25_NonAdminNeverBecomesAdmin ==
  [][ (last'.op = "update" /\ last'.tbl = "users" /\ NonAdmin(last'.caller)) =>
        /\ Admins(users') = Admins(users)
        /\ \A u \in UserIds : users'[u].role = users[u].role
        /\ (last'.old.id = last'.caller /\ last'.row.role # last'.old.role) =>
             (last'.rows = {} /\ users' = users)
        /\ last'.old.id # last'.caller => (last'.rows = {} /\ users' = users) ]_vars

\* u1, whose role is user, set role = 'admin' on its own row and was refused
C25_Witness ==
  /\ last.op = "update" /\ last.tbl = "users" /\ last.caller = "u1" /\ gen = 1
  /\ last.old.id = "u1" /\ last.old.role = "user" /\ last.row.role = "admin"
  /\ last.err = "rls" /\ users["u1"].role = "user"

\* C26 (as claimed): an UPDATE of a KYC row by a non-admin caller is accepted
\* only while the row is pending and leaves it pending; no such UPDATE
\* changes the status of any KYC row.
C26_OwnerKeepsKycPending ==
  [][ (last'.op = "update" /\ last'.tbl = "kyc" /\ NonAdmin(last'.caller)) =>
        /\ last'.rows # {} =>
             (last'.old.status = "pending" /\ last'.row.status = "pending")
        /\ \A r \in kyc : \A q \in kyc' : r.id = q.id => r.status = q.status ]_vars

\* C27 (as claimed): every withdrawals row an authenticated caller inserts
\* names, through withdrawal_account_id, a withdrawal account whose user_id
\* is the row's user_id; an insert that names another user's account is
\* rejected and leaves the table unchanged.
C27_WithdrawalToOwnAccount ==
  [][ (last'.op = "insert" /\ last'.tbl = "withdrawals" /\ last'.caller \in UserIds) =>
        /\ \A w \in withdrawals' \ withdrawals :
             \E a \in waccounts :
               Num(a.id) = w.withdrawal_account_id /\ a.user_id = w.user_id
        /\ (\E a \in waccounts : /\ Num(a.id) = last'.row.withdrawal_account_id
                                 /\ a.user_id # last'.row.user_id) =>
             (last'.rows = {} /\ withdrawals' = withdrawals) ]_vars

\* every invocation of fetchStats that was started has ended
AllFetchesEnded ==
  \A k \in DOMAIN dash.fs : dash.fs[k].pc \in {"done", "failed"}

\* C28 (as claimed): once two invocations of fetchStats have been started and
\* both have ended, the one started last having reached setStats, the stats
\* shown are the results that invocation read, whatever the order in which
\* the queries' responses arrived.
C28_LastStartedWins ==
  (Len(dash.fs) = 2 /\ AllFetchesEnded /\ dash.fs[2].pc = "done") =>
    dash.stats = StatsOf(dash.fs[2].counts)

\* auth.getUser returned the user u, has_role was then asked about u and the
\* role admin, and answered with a truthy value
AdminConfirmed(u) ==
  \E i, j, k \in DOMAIN calls :
    /\ i < j /\ j < k
    /\ calls[i] = Return("auth.getUser", Outcome("ok", u)) /\ u # NULL
    /\ calls[j] = Call("has_role", [_user_id |-> u, _role |-> "admin"])
    /\ calls[k].ev = "return" /\ calls[k].fn = "has_role"
    /\ calls[k].val.status # "throw" /\ Truthy(calls[k].val.data)

\* the summary tiles and the tabs are on the screen only with loading false
\* and isAdmin true, isAdmin is true and fetchStats is invoked only for a
\* user whom has_role confirmed, and checkAdminAccess has ended only with
\* loading false
RenderGates ==
  /\ View = "dashboard" => (~dash.loading /\ dash.isAdmin)
  /\ dash.isAdmin => (dash.user # NULL /\ AdminConfirmed(dash.user))
  /\ Issued("fetchStats") => dash.isAdmin
  /\ dash.pc = "done" => ~dash.loading

\* C29: in every reachable state of AdminDashboard the summary tiles and tab
\* components are rendered only when loading is false and isAdmin is true,
\* and isAdmin is true only after getUser returned a user and has_role
\* returned a truthy value for that user; on every path of checkAdminAccess
\* (no user, not admin, exception, admin) loading eventually becomes false
\* and stays false.
C29_RenderGatesAndLoadingEnds ==
  /\ []RenderGates
  /\ <>[](~dash.loading)

\* the admin a1 was confirmed by has_role and the dashboard is on the screen
C29_Witness ==
  /\ View = "dashboard" /\ dash.user = "a1" /\ dash.roleData = "true"
  /\ AdminConfirmed("a1") /\ dash.pc = "done"

====
